---------------------------- MODULE Spec2Model ----------------------------
(***************************************************************************)
(* A model of the configuration reader of C++ Config Framework:            *)
(* ConfigReader::Impl::read and the functions it calls                     *)
(* (src/code/src/ConfigReaderImpl.cpp).                                    *)
(*                                                                         *)
(* Strings are sequences of tokens: the node path "/a/b" is                *)
(* <<"/", "a", "/", "b">>, the JSON key "&a" is <<"&", "a">>.  A           *)
(* configuration node is a record with a type field; the members of an     *)
(* Object node are a function from member names to nodes (the code keeps   *)
(* them in a std::unordered_map), the elements of an Array or DerivedArray *)
(* node are a sequence.  A node is addressed inside a tree by its          *)
(* location: the sequence of member names and element indexes that leads   *)
(* to it from the root of the tree; the parent of a node is the node one   *)
(* step up.                                                                *)
(***************************************************************************)
EXTENDS Integers, Sequences, FiniteSets, TLC

\* ------------------------------------------------------------------------
\* Small helpers
\* ------------------------------------------------------------------------

Last(s) == s[Len(s)]

Front(s) == SubSeq(s, 1, Len(s) - 1)

\* ------------------------------------------------------------------------
\* Configuration nodes (ConfigNode and ConfigNodeData)
\* ------------------------------------------------------------------------

NullNode == [type |-> "Null"]

ValueNode(v) == [type |-> "Value", value |-> v]

ArrayNode(es) == [type |-> "Array", elements |-> es]

ObjectNode(ms) == [type |-> "Object", members |-> ms]

ReferenceNode(ref) == [type |-> "NodeReference", nodeReference |-> ref]

DerivedArrayNode(es) == [type |-> "DerivedArray", elements |-> es]

DerivedObjectNode(bs, cfg) == [type |-> "DerivedObject", bases |-> bs, config |-> cfg]

\* An Object node without members
EmptyObject == ObjectNode(<<>>)

\* A null std::unique_ptr<ConfigNode>, a null ConfigNode pointer
NoNode == [type |-> "nullptr"]

IsObject(n) == n.type = "Object"

\* ------------------------------------------------------------------------
\* Node names and node paths
\* ------------------------------------------------------------------------

\* The names that match [A-Za-z_][A-Za-z0-9_]* among the tokens of the model
ValidNames == {"a", "b", "c"}

\* A name is one token that matches the pattern
validateNodeName(name) == Len(name) = 1 /\ name[1] \in ValidNames

isAbsoluteNodePath(p) == Len(p) > 0 /\ p[1] = "/"

\* The segments of a path: the tokens between the slashes.  An empty segment
\* (two slashes in a row, a trailing slash) is the token "".
RECURSIVE Segments(_)
Segments(p) ==
    IF Len(p) = 0 THEN <<>>
    ELSE IF p[1] = "/"
         THEN IF Len(p) = 1 \/ p[2] = "/" THEN <<"">> \o Segments(Tail(p))
              ELSE Segments(Tail(p))
         ELSE <<p[1]>> \o Segments(Tail(p))

\* The segments of an absolute path ("/" has none), of a relative path
PathNames(p) ==
    IF p = <<"/">> THEN <<>>
    ELSE IF isAbsoluteNodePath(p) THEN Segments(p)
    ELSE IF Len(p) = 0 THEN <<>>
    ELSE Segments(<<"/">> \o p)

\* validate_path: "/" is valid, the empty path is not, every segment is a name
validateNodePath(p) ==
    \/ p = <<"/">>
    \/ /\ Len(p) > 0
       /\ \A i \in 1..Len(PathNames(p)) : PathNames(p)[i] \in ValidNames

\* The path left after the ".." segments of a joined path are resolved;
\* <<"^">> when they climb above the root
RECURSIVE DropDots(_, _)
DropDots(done, todo) ==
    IF Len(todo) = 0 THEN done
    ELSE IF Head(todo) = ".."
         THEN IF Len(done) = 0 THEN <<"^">> ELSE DropDots(Front(done), Tail(todo))
         ELSE DropDots(Append(done, Head(todo)), Tail(todo))

\* validate_reference: an absolute reference validates by itself, a relative
\* one is joined onto the current path and validated with its ".." resolved
validateNodeReference(ref, current) ==
    IF isAbsoluteNodePath(ref) THEN validateNodePath(ref)
    ELSE /\ Len(ref) > 0
         /\ LET joined == DropDots(<<>>, PathNames(current) \o PathNames(ref))
            IN \A i \in 1..Len(joined) : joined[i] \in ValidNames

\* append(p, name): exactly one "/" between the path and the name
appendNodeToPath(p, name) ==
    IF p = <<"/">> THEN <<"/", name>> ELSE p \o <<"/", name>>

\* ------------------------------------------------------------------------
\* Locations inside a tree
\* ------------------------------------------------------------------------

Child(n, step) == IF n.type = "Object" THEN n.members[step] ELSE n.elements[step]

HasChild(n, step) ==
    IF n.type = "Object" THEN step \in DOMAIN n.members
    ELSE FALSE

RECURSIVE GetAt(_, _)
GetAt(t, loc) ==
    IF Len(loc) = 0 THEN t ELSE GetAt(Child(t, Head(loc)), Tail(loc))

RECURSIVE SetAt(_, _, _)
SetAt(t, loc, n) ==
    IF Len(loc) = 0 THEN n
    ELSE IF t.type = "Object"
         THEN [t EXCEPT !.members[Head(loc)] = SetAt(@, Tail(loc), n)]
         ELSE [t EXCEPT !.elements[Head(loc)] = SetAt(@, Tail(loc), n)]

\* ------------------------------------------------------------------------
\* ConfigNode::isFullyResolved of the reader
\* ------------------------------------------------------------------------

RECURSIVE isFullyResolved(_)
isFullyResolved(n) ==
    CASE n.type \in {"Null", "Value"} -> TRUE
      [] n.type = "Array" ->
            \A i \in 1..Len(n.elements) : isFullyResolved(n.elements[i])
      [] n.type = "Object" ->
            \A k \in DOMAIN n.members : isFullyResolved(n.members[k])
      [] OTHER -> FALSE

\* ------------------------------------------------------------------------
\* ConfigNode::applyObject
\* ------------------------------------------------------------------------

\* The merge with arrays on both sides concatenated, not replaced
RECURSIVE MergeMembers_ArraysAppended(_, _)
MergeMembers_ArraysAppended(d, s) ==
    [k \in (DOMAIN d) \cup (DOMAIN s) |->
        IF k \notin DOMAIN s THEN d[k]
        ELSE IF k \notin DOMAIN d THEN s[k]
        ELSE IF IsObject(d[k]) /\ IsObject(s[k])
             THEN ObjectNode(MergeMembers_ArraysAppended(d[k].members, s[k].members))
             ELSE IF d[k].type = "Array" /\ s[k].type = "Array"
                  THEN ArrayNode(d[k].elements \o s[k].elements)
                  ELSE s[k]]

\* The merge that keeps the member the destination has
RECURSIVE MergeMembers_DestinationKept(_, _)
MergeMembers_DestinationKept(d, s) ==
    [k \in (DOMAIN d) \cup (DOMAIN s) |->
        IF k \notin DOMAIN s THEN d[k]
        ELSE IF k \notin DOMAIN d THEN s[k]
        ELSE IF IsObject(d[k]) /\ IsObject(s[k])
             THEN ObjectNode(MergeMembers_DestinationKept(d[k].members, s[k].members))
             ELSE d[k]]

RECURSIVE MergeMembers(_, _)
MergeMembers(d, s) ==
    [k \in (DOMAIN d) \cup (DOMAIN s) |->
        IF k \notin DOMAIN s THEN d[k]
        ELSE IF k \notin DOMAIN d THEN s[k]
        ELSE IF IsObject(d[k]) /\ IsObject(s[k])
             THEN ObjectNode(MergeMembers(d[k].members, s[k].members))
             ELSE s[k]]

\* The result of dst.applyObject(src): whether it succeeded, and dst after it
applyObject(dst, src) ==
    IF IsObject(dst) /\ IsObject(src)
    THEN [ok |-> TRUE, node |-> ObjectNode(MergeMembers(dst.members, src.members))]
    ELSE [ok |-> FALSE, node |-> dst]

\* ------------------------------------------------------------------------
\* ConfigNode::nodeAtPath
\* ------------------------------------------------------------------------

\* The trees a node under resolution reaches through parent pointers.
\* ctx[1].tree is the tree of the configuration being resolved; ctx[k].tree,
\* k > 1, is a clone of the config override of a derived object, and the
\* parent of its root is the node at location ctx[k].at of ctx[k - 1].tree.
Top(ctx) == ctx[Len(ctx)]

WithTop(ctx, t) == [ctx EXCEPT ![Len(ctx)].tree = t]

\* Whether the node at loc of the top tree has a parent
HasParent(ctx, loc) == Len(loc) > 0 \/ Len(ctx) > 1

\* The parent of the node at loc of the top tree: its tree and its location
ParentPos(ctx, loc) ==
    IF Len(loc) > 0 THEN [k |-> Len(ctx), loc |-> Front(loc)]
    ELSE [k |-> Len(ctx) - 1, loc |-> Top(ctx).at]

\* Consumes the segments of a path from the node at loc of ctx[k].tree:
\* ".." goes to the parent, a name to the member of that name
RECURSIVE Walk(_, _, _, _)
Walk(ctx, k, loc, segs) ==
    IF Len(segs) = 0 THEN GetAt(ctx[k].tree, loc)
    ELSE IF Head(segs) = ".."
         THEN IF Len(loc) > 0 THEN Walk(ctx, k, Front(loc), Tail(segs))
              ELSE IF k > 1 THEN Walk(ctx, k - 1, ctx[k].at, Tail(segs))
              ELSE NoNode
         ELSE IF HasChild(GetAt(ctx[k].tree, loc), Head(segs))
              THEN Walk(ctx, k, Append(loc, Head(segs)), Tail(segs))
              ELSE NoNode

\* node.nodeAtPath(path) for the node at loc of ctx[k].tree: an absolute path
\* is walked from the root (the node without parent), a relative one from
\* the node
nodeAtPath(ctx, k, loc, path) ==
    IF isAbsoluteNodePath(path) THEN Walk(ctx, 1, <<>>, PathNames(path))
    ELSE Walk(ctx, k, loc, PathNames(path))

\* root.nodeAtPath(path) on a tree by itself
NodeAt(root, path) == nodeAtPath(<<[tree |-> root, at |-> <<>>]>>, 1, <<>>, path)

\* ------------------------------------------------------------------------
\* The resolver: one call of resolveReferences
\* ------------------------------------------------------------------------

\* The member names of an Object node in the order the hash map iterates
\* them: the order ord of all names, restricted to the members of the node
memberNames(n, ord) == SelectSeq(ord, LAMBDA k : k \in DOMAIN n.members)

\* What a resolve function leaves: the top tree of the context after the
\* call, the ReferenceResolutionResult it returns, and the calls of
\* resolveReferences made under it, in the order in which they returned
Outcome(t, r) == [t |-> t, r |-> r, v |-> <<>>]

\* The record of one call of resolveReferences: the tree (its depth in the
\* context) and the location of the node, the type the node had when the
\* call started, the result of the call, the trees as the call found them
\* (ctx), the top tree as the call left it (after), and the number of calls
\* of resolveReferences made from its start to its return, itself included
Visit(ctx, loc, out) ==
    [k |-> Len(ctx), loc |-> loc, type |-> GetAt(Top(ctx).tree, loc).type, r |-> out.r,
     ctx |-> ctx, after |-> out.t, calls |-> Len(out.v) + 1]

RECURSIVE resolveReferences(_, _, _)
RECURSIVE resolveChildren(_, _, _, _, _, _)
RECURSIVE applyBases(_, _, _, _)

\* The loops with Unresolved handled like Error: the first child that is
\* not resolved ends the loop
RECURSIVE resolveChildren_StopsAtUnresolved(_, _, _, _, _, _)
resolveChildren_StopsAtUnresolved(ctx, loc, steps, ord, result, seen) ==
    IF Len(steps) = 0 THEN [Outcome(Top(ctx).tree, result) EXCEPT !.v = seen]
    ELSE LET one == resolveReferences(ctx, Append(loc, Head(steps)), ord)
         IN IF one.r # "Resolved" THEN [Outcome(one.t, one.r) EXCEPT !.v = seen \o one.v]
            ELSE resolveChildren_StopsAtUnresolved(WithTop(ctx, one.t), loc, Tail(steps),
                                                   ord, result, seen \o one.v)

\* The loops of resolveArrayReferences, resolveObjectReferences and
\* resolveDerivedArrayReferences over the children named by steps: an Error
\* ends the loop, an Unresolved is remembered and the loop goes on
resolveChildren(ctx, loc, steps, ord, result, seen) ==
    IF Len(steps) = 0 THEN [Outcome(Top(ctx).tree, result) EXCEPT !.v = seen]
    ELSE LET one == resolveReferences(ctx, Append(loc, Head(steps)), ord)
         IN IF one.r = "Error" THEN [Outcome(one.t, "Error") EXCEPT !.v = seen \o one.v]
            ELSE resolveChildren(WithTop(ctx, one.t), loc, Tail(steps), ord,
                                 IF one.r = "Unresolved" THEN "Unresolved" ELSE result,
                                 seen \o one.v)

Indexes(n) == [i \in 1..Len(n.elements) |-> i]

\* resolveArrayReferences with its result initialised to Unresolved
resolveArrayReferences_StartsUnresolved(ctx, loc, ord) ==
    resolveChildren(ctx, loc, Indexes(GetAt(Top(ctx).tree, loc)), ord, "Unresolved", <<>>)

resolveArrayReferences(ctx, loc, ord) ==
    resolveChildren(ctx, loc, Indexes(GetAt(Top(ctx).tree, loc)), ord, "Resolved", <<>>)

resolveObjectReferences(ctx, loc, ord) ==
    resolveChildren(ctx, loc, memberNames(GetAt(Top(ctx).tree, loc), ord), ord,
                    "Resolved", <<>>)

\* resolveNodeReference without the check of the node it has copied: it
\* reports Resolved for every reference whose target exists
resolveNodeReference_Unchecked(ctx, loc, ord) ==
    LET top == Top(ctx).tree
        node == GetAt(top, loc)
        parent == ParentPos(ctx, loc)
        referencedNode == nodeAtPath(ctx, parent.k, parent.loc, node.nodeReference)
    IN IF ~HasParent(ctx, loc) THEN Outcome(top, "Error")
       ELSE IF referencedNode = NoNode THEN Outcome(top, "Unresolved")
       ELSE Outcome(SetAt(top, loc, referencedNode), "Resolved")

\* resolveNodeReference without the assignment to the node: it finds the
\* referenced node and leaves the reference where it is
resolveNodeReference_NotReplaced(ctx, loc, ord) ==
    LET top == Top(ctx).tree
        node == GetAt(top, loc)
        parent == ParentPos(ctx, loc)
        referencedNode == nodeAtPath(ctx, parent.k, parent.loc, node.nodeReference)
    IN IF ~HasParent(ctx, loc) THEN Outcome(top, "Error")
       ELSE IF referencedNode = NoNode THEN Outcome(top, "Unresolved")
       ELSE Outcome(top, IF isFullyResolved(referencedNode) THEN "Resolved" ELSE "Unresolved")

\* resolveNodeReference with a reference that names no node taken for an
\* error
resolveNodeReference_CopyIsResolved(ctx, loc, ord) ==
    LET top == Top(ctx).tree
        node == GetAt(top, loc)
        parent == ParentPos(ctx, loc)
        referencedNode == nodeAtPath(ctx, parent.k, parent.loc, node.nodeReference)
    IN IF ~HasParent(ctx, loc) THEN Outcome(top, "Error")
       ELSE IF referencedNode = NoNode THEN Outcome(top, "Unresolved")
       ELSE Outcome(SetAt(top, loc, referencedNode), "Resolved")

resolveNodeReference_MissingIsError(ctx, loc, ord) ==
    LET top == Top(ctx).tree
        node == GetAt(top, loc)
        parent == ParentPos(ctx, loc)
        referencedNode == nodeAtPath(ctx, parent.k, parent.loc, node.nodeReference)
    IN IF ~HasParent(ctx, loc) THEN Outcome(top, "Error")
       ELSE IF referencedNode = NoNode THEN Outcome(top, "Error")
       ELSE Outcome(SetAt(top, loc, referencedNode),
                    IF isFullyResolved(referencedNode) THEN "Resolved" ELSE "Unresolved")

resolveNodeReference(ctx, loc, ord) ==
    LET top == Top(ctx).tree
        node == GetAt(top, loc)
        parent == ParentPos(ctx, loc)
        referencedNode == nodeAtPath(ctx, parent.k, parent.loc, node.nodeReference)
    IN IF ~HasParent(ctx, loc) THEN Outcome(top, "Error")
       ELSE IF referencedNode = NoNode THEN Outcome(top, "Unresolved")
       ELSE Outcome(SetAt(top, loc, referencedNode),
                    IF isFullyResolved(referencedNode) THEN "Resolved" ELSE "Unresolved")

\* The loop of resolveDerivedArrayReferences without the setParent of its
\* elements: each element is resolved as the root of a tree of its own
RECURSIVE resolveElements_Parentless(_, _, _, _, _, _)
resolveElements_Parentless(ctx, loc, steps, ord, result, seen) ==
    IF Len(steps) = 0 THEN [Outcome(Top(ctx).tree, result) EXCEPT !.v = seen]
    ELSE LET at == Append(loc, Head(steps))
             one == resolveReferences(<<[tree |-> GetAt(Top(ctx).tree, at), at |-> <<>>]>>,
                                      <<>>, ord)
             top == SetAt(Top(ctx).tree, at, one.t)
         IN IF one.r = "Error" THEN [Outcome(top, "Error") EXCEPT !.v = seen \o one.v]
            ELSE resolveElements_Parentless(
                     WithTop(ctx, top), loc, Tail(steps), ord,
                     IF one.r = "Unresolved" THEN "Unresolved" ELSE result, seen \o one.v)

resolveDerivedArrayReferences_ElementsParentless(ctx, loc, ord) ==
    LET top == Top(ctx).tree
        node == GetAt(top, loc)
        each == resolveElements_Parentless(ctx, loc, Indexes(node), ord, "Resolved", <<>>)
    IN IF ~HasParent(ctx, loc) THEN Outcome(top, "Error")
       ELSE IF each.r # "Resolved" THEN each
       ELSE [each EXCEPT !.t = SetAt(each.t, loc, ArrayNode(GetAt(each.t, loc).elements))]

\* resolveDerivedArrayReferences without the test of the result of the
\* loop: the node is converted to an Array whatever its elements returned
resolveDerivedArrayReferences_AlwaysConverts(ctx, loc, ord) ==
    LET top == Top(ctx).tree
        node == GetAt(top, loc)
        each == resolveChildren(ctx, loc, Indexes(node), ord, "Resolved", <<>>)
    IN IF ~HasParent(ctx, loc) THEN Outcome(top, "Error")
       ELSE IF each.r = "Error" THEN each
       ELSE [each EXCEPT !.t = SetAt(each.t, loc, ArrayNode(GetAt(each.t, loc).elements))]

resolveDerivedArrayReferences(ctx, loc, ord) ==
    LET top == Top(ctx).tree
        node == GetAt(top, loc)
        each == resolveChildren(ctx, loc, Indexes(node), ord, "Resolved", <<>>)
    IN IF ~HasParent(ctx, loc) THEN Outcome(top, "Error")
       ELSE IF each.r # "Resolved" THEN each
       ELSE [each EXCEPT !.t = SetAt(each.t, loc, ArrayNode(GetAt(each.t, loc).elements))]

\* The loop over the bases with the application turned around: the object
\* derived so far is applied to the base, so that an earlier base overrides
\* a later one
RECURSIVE applyBases_FirstBaseWins(_, _, _, _)
applyBases_FirstBaseWins(ctx, parent, bases, derived) ==
    IF Len(bases) = 0 THEN [r |-> "Resolved", node |-> derived]
    ELSE LET baseNode == nodeAtPath(ctx, parent.k, parent.loc, Head(bases))
         IN IF baseNode = NoNode THEN [r |-> "Unresolved", node |-> derived]
            ELSE IF ~isFullyResolved(baseNode) THEN [r |-> "Unresolved", node |-> derived]
            ELSE LET applied == applyObject(baseNode, derived)
                 IN IF ~applied.ok THEN [r |-> "Error", node |-> derived]
                    ELSE applyBases_FirstBaseWins(ctx, parent, Tail(bases), applied.node)

\* The loop over the bases with a base that cannot be applied passed over
RECURSIVE applyBases_FailureIgnored(_, _, _, _)
applyBases_FailureIgnored(ctx, parent, bases, derived) ==
    IF Len(bases) = 0 THEN [r |-> "Resolved", node |-> derived]
    ELSE LET baseNode == nodeAtPath(ctx, parent.k, parent.loc, Head(bases))
         IN IF baseNode = NoNode THEN [r |-> "Unresolved", node |-> derived]
            ELSE IF ~isFullyResolved(baseNode) THEN [r |-> "Unresolved", node |-> derived]
            ELSE applyBases_FailureIgnored(ctx, parent, Tail(bases),
                                           applyObject(derived, baseNode).node)

\* The loop over the bases with a base that names no node taken for an error
RECURSIVE applyBases_MissingIsError(_, _, _, _)
applyBases_MissingIsError(ctx, parent, bases, derived) ==
    IF Len(bases) = 0 THEN [r |-> "Resolved", node |-> derived]
    ELSE LET baseNode == nodeAtPath(ctx, parent.k, parent.loc, Head(bases))
         IN IF baseNode = NoNode THEN [r |-> "Error", node |-> derived]
            ELSE IF ~isFullyResolved(baseNode) THEN [r |-> "Unresolved", node |-> derived]
            ELSE LET applied == applyObject(derived, baseNode)
                 IN IF ~applied.ok THEN [r |-> "Error", node |-> derived]
                    ELSE applyBases_MissingIsError(ctx, parent, Tail(bases), applied.node)

\* The loop of resolveDerivedObjectReferences over the bases: the object
\* derived so far, and Unresolved for a base that is missing or not fully
\* resolved, Error for one that cannot be applied
applyBases(ctx, parent, bases, derived) ==
    IF Len(bases) = 0 THEN [r |-> "Resolved", node |-> derived]
    ELSE LET baseNode == nodeAtPath(ctx, parent.k, parent.loc, Head(bases))
         IN IF baseNode = NoNode THEN [r |-> "Unresolved", node |-> derived]
            ELSE IF ~isFullyResolved(baseNode) THEN [r |-> "Unresolved", node |-> derived]
            ELSE LET applied == applyObject(derived, baseNode)
                 IN IF ~applied.ok THEN [r |-> "Error", node |-> derived]
                    ELSE applyBases(ctx, parent, Tail(bases), applied.node)

resolveDerivedObjectReferences(ctx, loc, ord) ==
    LET top == Top(ctx).tree
        node == GetAt(top, loc)
        parent == ParentPos(ctx, loc)
        based == applyBases(ctx, parent, node.bases, EmptyObject)
        \* the clone of the config override, with the parent node as parent
        override ==
            IF isFullyResolved(node.config) THEN Outcome(node.config, "Resolved")
            ELSE resolveReferences(
                     Append(SubSeq(ctx, 1, parent.k),
                            [tree |-> node.config, at |-> parent.loc]),
                     <<>>, ord)
        applied == IF override.t.type = "Null" THEN [ok |-> TRUE, node |-> based.node]
                   ELSE applyObject(based.node, override.t)
    IN IF ~HasParent(ctx, loc) THEN Outcome(top, "Error")
       ELSE IF based.r # "Resolved" THEN Outcome(top, based.r)
       ELSE IF override.r = "Error" THEN [Outcome(top, "Error") EXCEPT !.v = override.v]
       ELSE IF override.r = "Unresolved"
            THEN [override EXCEPT !.t = SetAt(top, loc, [node EXCEPT !.config = override.t])]
       ELSE IF ~applied.ok
            THEN [override EXCEPT !.t = SetAt(top, loc, [node EXCEPT !.config = override.t]),
                                  !.r = "Error"]
       ELSE [override EXCEPT !.t = SetAt(top, loc, applied.node)]

\* The switch of resolveReferences on the type of the node
resolveByType(ctx, loc, ord) ==
    LET node == GetAt(Top(ctx).tree, loc)
    IN CASE node.type \in {"Null", "Value"} -> Outcome(Top(ctx).tree, "Resolved")
         [] node.type = "Array" -> resolveArrayReferences(ctx, loc, ord)
         [] node.type = "Object" -> resolveObjectReferences(ctx, loc, ord)
         [] node.type = "NodeReference" -> resolveNodeReference(ctx, loc, ord)
         [] node.type = "DerivedArray" -> resolveDerivedArrayReferences(ctx, loc, ord)
         [] node.type = "DerivedObject" -> resolveDerivedObjectReferences(ctx, loc, ord)
         [] OTHER -> Outcome(Top(ctx).tree, "Error")

resolveReferences(ctx, loc, ord) ==
    LET out == resolveByType(ctx, loc, ord)
    IN [out EXCEPT !.v = Append(@, Visit(ctx, loc, out))]

\* One pass of the loop of read: resolveReferences(completeConfig.get())
ResolvePass(root, ord) == resolveReferences(<<[tree |-> root, at |-> <<>>]>>, <<>>, ord)

\* ------------------------------------------------------------------------
\* JSON values (QJsonValue)
\* ------------------------------------------------------------------------

JUndefined == [t |-> "Undefined"]

JNull == [t |-> "Null"]

\* A boolean or a number
JNum(v) == [t |-> "Double", v |-> v]

\* A string, as its tokens
JStr(s) == [t |-> "String", v |-> s]

JArr(es) == [t |-> "Array", v |-> es]

\* A JSON object: a function from its keys (each a token sequence) to values
JObj(m) == [t |-> "Object", v |-> m]

\* QJsonValue::toVariant: the payload of a Value node
toVariant(jsonValue) == jsonValue.v

\* QJsonObject::value: Undefined for a key the object does not have
JsonValue(obj, key) == IF key \in DOMAIN obj.v THEN obj.v[key] ELSE JUndefined

\* The UTF-16 code units of the characters the keys of a 'config' member
\* are made of in the documents of the model
CodeUnit == ("#" :> 35) @@ ("&" :> 38) @@ ("a" :> 97) @@ ("b" :> 98) @@ ("c" :> 99)

\* key1 < key2 for two keys, by code unit
RECURSIVE KeyLess(_, _)
KeyLess(key1, key2) ==
    IF Len(key2) = 0 THEN FALSE
    ELSE IF Len(key1) = 0 THEN TRUE
    ELSE IF CodeUnit[Head(key1)] # CodeUnit[Head(key2)]
         THEN CodeUnit[Head(key1)] < CodeUnit[Head(key2)]
         ELSE KeyLess(Tail(key1), Tail(key2))

\* The keys of a JSON object from begin() to end(): QJsonObject keeps its
\* keys sorted
jsonKeys(jsonObject) ==
    LET keys == DOMAIN jsonObject.v
        n == Cardinality(keys)
    IN CHOOSE s \in [1..n -> keys] : \A i, j \in 1..n : i < j => KeyLess(s[i], s[j])

\* ------------------------------------------------------------------------
\* The JSON reader
\* ------------------------------------------------------------------------

hasDecorator(memberName) == Len(memberName) > 0 /\ memberName[1] \in {"&", "#"}

\* The decorator of a key ("" when it has none), and the key without it
Decorator(key) == IF hasDecorator(key) THEN key[1] ELSE ""

Undecorated(key) == IF hasDecorator(key) THEN Tail(key) ELSE key

readReferenceNode(nodeReference, currentNodePath) ==
    IF ~validateNodeReference(nodeReference, currentNodePath) THEN NoNode
    ELSE ReferenceNode(nodeReference)

RECURSIVE readJsonValue(_, _)
RECURSIVE readJsonObject(_, _)
RECURSIVE readDerivedArrayNode(_, _)
RECURSIVE readDerivedObjectNode(_, _)
RECURSIVE readDecorated(_, _, _)

readJsonArray(jsonArray, currentNodePath) ==
    LET elementNodes ==
            [i \in 1..Len(jsonArray.v) |->
                readJsonValue(jsonArray.v[i],
                              appendNodeToPath(currentNodePath, ToString(i - 1)))]
    IN IF \E i \in 1..Len(jsonArray.v) : elementNodes[i] = NoNode THEN NoNode
       ELSE ArrayNode(elementNodes)

readJsonValue(jsonValue, currentNodePath) ==
    CASE jsonValue.t = "Null" -> NullNode
      [] jsonValue.t \in {"Bool", "Double", "String"} -> ValueNode(toVariant(jsonValue))
      [] jsonValue.t = "Array" -> readJsonArray(jsonValue, currentNodePath)
      [] jsonValue.t = "Object" -> readJsonObject(jsonValue, currentNodePath)
      [] OTHER -> NoNode

\* The switch on the decorator in readJsonObject and in readDerivedArrayNode
readDecorated(decorator, value, nodePath) ==
    CASE decorator = "#" -> ValueNode(toVariant(value))
      [] decorator = "&" ->
            CASE value.t = "String" -> readReferenceNode(value.v, nodePath)
              [] value.t = "Array" -> readDerivedArrayNode(value, nodePath)
              [] value.t = "Object" -> readDerivedObjectNode(value, nodePath)
              [] OTHER -> NoNode
      [] OTHER -> readJsonValue(value, nodePath)

\* readJsonObject without the check for a member of the same name: the key
\* read last replaces the member stored before
readJsonObject_Overwrites(jsonObject, currentNodePath) ==
    LET keys == DOMAIN jsonObject.v
        memberNode(key) ==
            readDecorated(Decorator(key), jsonObject.v[key],
                          appendNodeToPath(currentNodePath, Undecorated(key)[1]))
    IN IF \E key \in keys : ~validateNodeName(Undecorated(key)) THEN NoNode
       ELSE IF \E key \in keys : memberNode(key) = NoNode THEN NoNode
       ELSE ObjectNode([name \in {Undecorated(key)[1] : key \in keys} |->
                           memberNode(CHOOSE key \in keys : Undecorated(key)[1] = name)])

\* The loop over the keys of the JSON object returns a null pointer at the
\* first key that has an invalid name, a name already stored, or a value
\* that cannot be read; otherwise every key has stored its member.
readJsonObject(jsonObject, currentNodePath) ==
    LET keys == DOMAIN jsonObject.v
        memberNode(key) ==
            readDecorated(Decorator(key), jsonObject.v[key],
                          appendNodeToPath(currentNodePath, Undecorated(key)[1]))
    IN IF \E key \in keys : ~validateNodeName(Undecorated(key)) THEN NoNode
       ELSE IF \E k1, k2 \in keys : k1 # k2 /\ Undecorated(k1) = Undecorated(k2) THEN NoNode
       ELSE IF \E key \in keys : memberNode(key) = NoNode THEN NoNode
       ELSE ObjectNode([name \in {Undecorated(key)[1] : key \in keys} |->
                           memberNode(CHOOSE key \in keys : Undecorated(key)[1] = name)])

readDerivedArrayNode(jsonArray, currentNodePath) ==
    LET n == Len(jsonArray.v)
        item(i) == jsonArray.v[i]
        key(i) == CHOOSE k \in DOMAIN item(i).v : TRUE
        wellFormed(i) ==
            /\ item(i).t = "Object"
            /\ Cardinality(DOMAIN item(i).v) = 1
            /\ Undecorated(key(i)) = <<"element">>
        elementNodes ==
            [i \in 1..n |->
                IF wellFormed(i)
                THEN readDecorated(Decorator(key(i)), item(i).v[key(i)], currentNodePath)
                ELSE NoNode]
    IN IF \E i \in 1..n : elementNodes[i] = NoNode THEN NoNode
       ELSE DerivedArrayNode(elementNodes)

readDerivedObjectNode(jsonObject, currentNodePath) ==
    LET baseValue == JsonValue(jsonObject, <<"base">>)
        bases == CASE baseValue.t = "String" -> <<baseValue.v>>
                   [] baseValue.t = "Array" ->
                        [i \in 1..Len(baseValue.v) |-> baseValue.v[i].v]
                   [] OTHER -> <<>>
        basesOk == \/ baseValue.t = "String"
                   \/ /\ baseValue.t = "Array"
                      /\ Len(baseValue.v) > 0
                      /\ \A i \in 1..Len(baseValue.v) : baseValue.v[i].t = "String"
        configValue == JsonValue(jsonObject, <<"config">>)
        config == CASE configValue.t = "Object" -> readJsonObject(configValue, currentNodePath)
                    [] configValue.t \in {"Null", "Undefined"} -> NullNode
                    [] OTHER -> NoNode
    IN IF ~basesOk THEN NoNode
       ELSE IF config = NoNode THEN NoNode
       ELSE DerivedObjectNode(bases, config)

\* The member names of the Object readJsonObject builds, in the order in
\* which its loop stores them with setMember
insertedNames(jsonObject) ==
    [i \in 1..Cardinality(DOMAIN jsonObject.v) |-> Undecorated(jsonKeys(jsonObject)[i])[1]]

\* ------------------------------------------------------------------------
\* readIncludesMember, readConfigMember, transformConfig
\* ------------------------------------------------------------------------

\* The only configuration type readIncludesMember accepts
CppConfigFramework == <<"CppConfigFramework">>

\* What readIncludesMember extracts from the include at one index: whether
\* the include is well formed, and the arguments of the nested read
IncludeEntry(includeValue) ==
    LET isObj == includeValue.t = "Object"
        typeValue == JsonValue(includeValue, <<"type">>)
        type == IF typeValue.t = "String" THEN typeValue.v ELSE CppConfigFramework
        filePathValue == JsonValue(includeValue, <<"file_path">>)
        sourceValue == JsonValue(includeValue, <<"source_node">>)
        destinationValue == JsonValue(includeValue, <<"destination_node">>)
    IN IF ~isObj THEN [ok |-> FALSE]
       ELSE IF typeValue.t \notin {"Undefined", "Null", "String"} THEN [ok |-> FALSE]
       ELSE IF type # CppConfigFramework THEN [ok |-> FALSE]
       ELSE IF filePathValue.t # "String" THEN [ok |-> FALSE]
       ELSE IF sourceValue.t \notin {"Undefined", "String"} THEN [ok |-> FALSE]
       ELSE IF destinationValue.t \notin {"Undefined", "String"} THEN [ok |-> FALSE]
       ELSE [ok |-> TRUE,
             filePath |-> filePathValue.v,
             sourceNode |-> IF sourceValue.t = "String" THEN sourceValue.v ELSE <<"/">>,
             destinationNode |->
                 IF destinationValue.t = "String" THEN destinationValue.v ELSE <<"/">>]

readConfigMember(rootObject) ==
    LET configValue == JsonValue(rootObject, <<"config">>)
    IN IF configValue.t = "Null" THEN NullNode
       ELSE IF configValue.t # "Object" THEN NoNode
       ELSE readJsonObject(configValue, <<"/">>)

\* The chain of Object nodes named by the names of the destination path,
\* with the source config node as the last member
RECURSIVE NestUnder(_, _)
NestUnder(nodeNames, sourceConfig) ==
    IF Len(nodeNames) = 1 THEN ObjectNode(Head(nodeNames) :> sourceConfig)
    ELSE ObjectNode(Head(nodeNames) :> NestUnder(Tail(nodeNames), sourceConfig))

\* transformConfig without the chain of Objects for the destination: the
\* source config node is returned as it is
transformConfig_DestinationIgnored(config, sourceNode, destinationNode) ==
    LET sourceConfig == IF sourceNode = <<"/">> THEN config ELSE NodeAt(config, sourceNode)
    IN IF sourceNode = <<"/">> /\ destinationNode = <<"/">> THEN config
       ELSE sourceConfig

transformConfig(config, sourceNode, destinationNode) ==
    LET sourceConfig == IF sourceNode = <<"/">> THEN config ELSE NodeAt(config, sourceNode)
        \* destinationNode.mid(1).split('/')
        nodeNames == Segments(<<"/">> \o Tail(destinationNode))
    IN IF sourceNode = <<"/">> /\ destinationNode = <<"/">> THEN config
       ELSE IF sourceConfig = NoNode THEN NoNode
       ELSE IF destinationNode = <<"/">> THEN sourceConfig
       ELSE IF \E i \in 1..Len(nodeNames) : ~validateNodeName(<<nodeNames[i]>>) THEN NoNode
       ELSE NestUnder(nodeNames, sourceConfig)

\* ------------------------------------------------------------------------
\* State
\* ------------------------------------------------------------------------

VARIABLES
    files,      \* the file system: file path -> parsed contents of the file
    order,      \* the order in which the hash maps iterate the member names
    maxCycles,  \* m_referenceResolutionMaxCycles
    stack,      \* the invocations of read in progress, the innermost last
    ret,        \* what the invocation of read that returned last has returned
    impl,       \* the fields of the Impl object of ConfigReader.cpp
    merge,      \* the nodes of a call of applyObject by itself
    factory,    \* the ConfigReaderFactory: its readers and its last call
    threads     \* the threads that read through the factory at the same time

vars == <<files, order, maxCycles, stack, ret, impl, merge, factory, threads>>

\* The longest chain of nested reads the model follows
MaxDepth == 3

\* The largest m_referenceResolutionMaxCycles the model sets
MaxCyclesBound == 2

\* Contents of a file that QJsonDocument::fromJson cannot parse
Unparsable == [t |-> "ParseError"]

NoReturn == [set |-> FALSE]

\* The Impl object of ConfigReader.cpp as constructed: two empty strings
NewImpl == [m_sourceNode |-> <<>>, m_destinationNode |-> <<>>]

\* No call of applyObject by itself
NoMerge == [applied |-> 0]

\* The reader the constructor of the factory registers
TheConfigReader == "ConfigReader"

\* The factory as constructed: the reader of the type "CppConfigFramework"
\* is registered, and no call has been made
NewFactory ==
    [m_configReaders |-> (CppConfigFramework :> TheConfigReader), call |-> "none"]

\* No thread reads through the factory
NoThreads == <<>>

\* The invocation read(filePath, workingDir, sourceNode, destinationNode) as it starts
Invocation(filePath, sourceNode, destinationNode) ==
    [filePath |-> filePath, sourceNode |-> sourceNode, destinationNode |-> destinationNode,
     pc |-> "open", index |-> 0, includesConfig |-> NoNode, completeConfig |-> NoNode,
     i |-> 0, result |-> "Unresolved", passes |-> <<>>,
     composed |-> NoNode, before |-> NoNode, visits |-> <<>>]

Frame == Last(stack)

Running == Len(stack) > 0

rootObject(f) == files[f.filePath]

includesArray(f) == JsonValue(rootObject(f), <<"includes">>).v

\* read returns: the invocation leaves the stack and hands its result over.
\* Besides the node returned (NoNode for a null pointer) the model records
\* the step of read that returned, the results of the passes of the
\* resolver, the configuration as the resolver found it (composed) and as
\* it left it (completeConfig), and of the last pass the configuration it
\* started from (before) and the calls it made (visits).
ReturnFrom(f, node, at) ==
    /\ stack' = Front(stack)
    /\ ret' = [set |-> TRUE, node |-> node, at |-> at, filePath |-> f.filePath,
               sourceNode |-> f.sourceNode, destinationNode |-> f.destinationNode,
               includesConfig |-> f.includesConfig,
               passes |-> f.passes, completeConfig |-> f.completeConfig,
               composed |-> f.composed, before |-> f.before, visits |-> f.visits]

Return(node, at) == ReturnFrom(Frame, node, at)

Goto(f) ==
    /\ stack' = [stack EXCEPT ![Len(stack)] = f]
    /\ ret' = NoReturn

\* ------------------------------------------------------------------------
\* The documents and the calls the model starts from
\* ------------------------------------------------------------------------

Key(name) == <<name>>

Amp(name) == <<"&", name>>

Root == <<"/">>

Abs(name) == <<"/", name>>

Abs2(name1, name2) == <<"/", name1, "/", name2>>

top == <<"top">>

fileX == <<"x">>

fileY == <<"y">>

\* The JSON object of a configuration file
Document(includes, config) ==
    JObj((IF includes.t = "Undefined" THEN <<>> ELSE (Key("includes") :> includes))
         @@ (IF config.t = "Undefined" THEN <<>> ELSE (Key("config") :> config)))

\* An item of a derived array
Element(key, value) == JObj(key :> value)

\* The literal of a derived object
Derived(base, config) ==
    JObj((Key("base") :> base)
         @@ (IF config.t = "Undefined" THEN <<>> ELSE (Key("config") :> config)))

\* What a 'config' member may hold for the name a: nothing, an object, a
\* forward reference, a reference to itself, an object with a reference in
\* it, a number, null, an object with a reference to the object
SlotA ==
    << <<>>,
       Key("a") :> JObj((Key("a") :> JNum(1)) @@ (Key("b") :> JObj(Key("a") :> JNum(1)))),
       Amp("a") :> JStr(Abs("b")),
       Amp("a") :> JStr(Abs("a")),
       Key("a") :> JObj(Amp("a") :> JStr(Abs("c"))),
       Key("a") :> JNum(1),
       Key("a") :> JNull,
       Key("a") :> JObj(Amp("b") :> JStr(Abs("a"))) >>

\* For the name b: nothing, a number, an object, a reference, a reference
\* into the node c, a derived array, an array, an array of objects that hold
\* a reference to c, an object derived from a and a reference to a, a
\* derived array of a reference to a, a number and a reference to c
SlotB ==
    << <<>>,
       Key("b") :> JNum(2),
       Key("b") :> JObj((Key("a") :> JNum(2)) @@ (Key("b") :> JObj(Key("b") :> JNum(2)))),
       Amp("b") :> JStr(Abs("a")),
       Amp("b") :> JStr(Abs2("c", "a")),
       Amp("b") :> JArr(<<Element(Amp("element"), JStr(Abs("a"))),
                          Element(Key("element"), JNum(1))>>),
       Key("b") :> JArr(<<JNum(1), JNull>>),
       Key("b") :> JArr(<<JObj(Amp("a") :> JStr(Abs("c"))),
                          JObj(Amp("b") :> Derived(JStr(Abs("a")), JUndefined)),
                          JObj(Amp("c") :> JStr(Abs("a")))>>),
       Amp("b") :> JArr(<<Element(Amp("element"), JStr(Abs("a"))),
                          Element(Key("element"), JNum(1)),
                          Element(Amp("element"), JStr(Abs("c")))>>) >>

\* For the name c: nothing, a number, derived objects (two bases and an
\* override, an override with a reference, no override, itself as base), a
\* reference, an object that holds an object derived from a and from the
\* object
SlotC ==
    << <<>>,
       Key("c") :> JNum(3),
       Amp("c") :> Derived(JArr(<<JStr(Abs("a")), JStr(Abs("b"))>>),
                           JObj(Key("b") :> JNum(7))),
       Amp("c") :> Derived(JStr(Abs("a")), JObj(Amp("c") :> JStr(Abs("b")))),
       Amp("c") :> Derived(JStr(Abs("b")), JUndefined),
       Amp("c") :> Derived(JStr(Abs("c")), JNull),
       Amp("c") :> JStr(Abs("a")),
       Key("c") :> JObj(Amp("c") :> Derived(JArr(<<JStr(Abs("a")), JStr(Abs("c"))>>),
                                            JUndefined)) >>

\* The orders in which a hash map may iterate the names
Orders ==
    { <<"a", "b", "c">>, <<"a", "c", "b">>, <<"b", "a", "c">>,
      <<"b", "c", "a">>, <<"c", "a", "b">>, <<"c", "b", "a">> }

\* The source and destination node paths of the outermost call of read
TopCalls == << <<Root, Root>>, <<Abs("c"), Abs2("a", "b")>> >>

\* A single file whose 'config' member holds references and derived nodes
InitResolve ==
    \E ia \in DOMAIN SlotA, ib \in DOMAIN SlotB, ic \in DOMAIN SlotC,
       o \in Orders, m \in 1..MaxCyclesBound, call \in DOMAIN TopCalls :
        /\ files = (top :> Document(JUndefined, JObj(SlotA[ia] @@ SlotB[ib] @@ SlotC[ic])))
        /\ order = o
        /\ maxCycles = m
        /\ stack = <<Invocation(top, TopCalls[call][1], TopCalls[call][2])>>
        /\ ret = NoReturn
        /\ impl = NewImpl
        /\ merge = NoMerge
        /\ factory = NewFactory
        /\ threads = NoThreads

\* What goes with a reference to the root, which copies the tree it is in:
\* nothing, a number, an object, a reference to the copy
BesideRoot ==
    << <<>>,
       Key("b") :> JNum(2),
       Key("b") :> JObj(Key("a") :> JNum(2)),
       Amp("b") :> JStr(Abs("a")) >>

\* A single file whose 'config' member holds a reference to the root
InitRootReference ==
    \E ib \in DOMAIN BesideRoot, o \in Orders, m \in 1..MaxCyclesBound :
        /\ files = (top :> Document(JUndefined,
                                    JObj((Amp("a") :> JStr(Root)) @@ BesideRoot[ib])))
        /\ order = o
        /\ maxCycles = m
        /\ stack = <<Invocation(top, Root, Root)>>
        /\ ret = NoReturn
        /\ impl = NewImpl
        /\ merge = NoMerge
        /\ factory = NewFactory
        /\ threads = NoThreads

Hash(name) == <<"#", name>>

\* 'config' members whose keys carry decorators: the name a twice (plain and
\* as a reference, plain and as a forced value, both one level down, as a
\* reference and as a forced value), and without a name twice (forced
\* values, a plain member beside a reference)
ReaderConfigs ==
    << JObj((Key("a") :> JNum(1)) @@ (Amp("a") :> JStr(Abs("b"))) @@ (Key("b") :> JNum(2))),
       JObj((Key("a") :> JNum(1)) @@ (Hash("a") :> JNum(2))),
       JObj(Key("b") :> JObj((Key("a") :> JNum(1)) @@ (Amp("a") :> JStr(Abs("b"))))),
       JObj((Amp("a") :> JStr(Abs("b"))) @@ (Hash("a") :> JNum(1)) @@ (Key("b") :> JNum(2))),
       JObj((Hash("a") :> JNum(5)) @@ (Key("b") :> JObj(Hash("b") :> JNum(6)))),
       JObj((Key("a") :> JNum(1)) @@ (Amp("b") :> JStr(Abs("a")))) >>

\* A single file whose 'config' member has keys with decorators
InitReader ==
    \E c \in DOMAIN ReaderConfigs, o \in Orders, m \in 1..MaxCyclesBound :
        /\ files = (top :> Document(JUndefined, ReaderConfigs[c]))
        /\ order = o
        /\ maxCycles = m
        /\ stack = <<Invocation(top, Root, Root)>>
        /\ ret = NoReturn
        /\ impl = NewImpl
        /\ merge = NoMerge
        /\ factory = NewFactory
        /\ threads = NoThreads

\* An item of the 'includes' member
Include(filePath, sourceNode, destinationNode) ==
    JObj((Key("file_path") :> JStr(filePath))
         @@ (IF sourceNode = <<>> THEN <<>> ELSE (Key("source_node") :> JStr(sourceNode)))
         @@ (IF destinationNode = <<>> THEN <<>>
             ELSE (Key("destination_node") :> JStr(destinationNode))))

Whole(filePath) == Include(filePath, <<>>, <<>>)

\* The 'includes' member of the outermost file: null, one file, two files in
\* both orders, one file twice, the file itself, a node of a file moved to
\* another path, a Value node of a file as the whole configuration, an item
\* that is no object, a type that is not supported, an item without
\* file_path, a file that does not exist, an item whose type, file_path,
\* source_node or destination_node is not a string, a whole file moved two
\* levels down
TopIncludes ==
    << JNull,
       JArr(<<Whole(fileX)>>),
       JArr(<<Whole(fileX), Whole(fileY)>>),
       JArr(<<Whole(fileY), Whole(fileX)>>),
       JArr(<<Whole(fileX), Whole(fileX)>>),
       JArr(<<Whole(top)>>),
       JArr(<<Include(fileX, Abs("a"), Abs("b"))>>),
       JArr(<<Include(fileX, Abs2("a", "a"), Root)>>),
       JArr(<<JNum(1)>>),
       JArr(<<JObj((Key("file_path") :> JStr(fileX)) @@ (Key("type") :> JStr(<<"Other">>)))>>),
       JArr(<<JObj(Key("type") :> JStr(CppConfigFramework))>>),
       JArr(<<Whole(<<"z">>)>>),
       JArr(<<JObj((Key("file_path") :> JStr(fileX)) @@ (Key("type") :> JNum(1)))>>),
       JArr(<<JObj(Key("file_path") :> JNum(1))>>),
       JArr(<<JObj((Key("file_path") :> JStr(fileX)) @@ (Key("source_node") :> JNum(1)))>>),
       JArr(<<Whole(fileY),
              JObj((Key("file_path") :> JStr(fileX)) @@ (Key("destination_node") :> JNull))>>),
       JArr(<<Include(fileY, Root, Abs2("c", "a"))>>) >>

TopConfigs ==
    << JObj((Key("a") :> JObj(Key("b") :> JNum(9))) @@ (Key("c") :> JNum(9))),
       JNull,
       JUndefined >>

XIncludes == << JUndefined, JArr(<<Whole(fileY)>>), JArr(<<Whole(top)>>) >>

XConfigs ==
    << JObj((Key("a") :> JObj((Key("a") :> JNum(1)) @@ (Key("b") :> JNum(1))))
            @@ (Key("b") :> JNum(1))),
       JObj(Amp("a") :> JStr(Abs("a"))) >>

YIncludes == << JUndefined, JArr(<<Whole(fileX)>>) >>

YConfigs ==
    << JObj((Key("a") :> JObj(Key("a") :> JNum(2))) @@ (Key("b") :> JObj(Key("a") :> JNum(2)))),
       JObj(Key("a") :> JNum(2)) >>

\* Three files that include each other, with plain 'config' members
InitInclude ==
    \E it \in DOMAIN TopIncludes, ct \in DOMAIN TopConfigs,
       ix \in DOMAIN XIncludes, cx \in DOMAIN XConfigs,
       iy \in DOMAIN YIncludes, cy \in DOMAIN YConfigs, m \in 1..MaxCyclesBound :
        /\ files = (top :> Document(TopIncludes[it], TopConfigs[ct]))
                   @@ (fileX :> Document(XIncludes[ix], XConfigs[cx]))
                   @@ (fileY :> Document(YIncludes[iy], YConfigs[cy]))
        /\ order = <<"a", "b", "c">>
        /\ maxCycles = m
        /\ stack = <<Invocation(top, Root, Root)>>
        /\ ret = NoReturn
        /\ impl = NewImpl
        /\ merge = NoMerge
        /\ factory = NewFactory
        /\ threads = NoThreads

Init == InitResolve \/ InitRootReference \/ InitReader \/ InitInclude

\* ------------------------------------------------------------------------
\* Actions: the steps of read
\* ------------------------------------------------------------------------

\* From the entry of read to the start of the loop over the includes
ReadOpen ==
    /\ Running /\ Frame.pc = "open"
    /\ LET f == Frame
           includesValue == JsonValue(rootObject(f), <<"includes">>)
       IN IF ~isAbsoluteNodePath(f.sourceNode) \/ ~validateNodePath(f.sourceNode)
          THEN Return(NoNode, "sourceNode")
          ELSE IF ~isAbsoluteNodePath(f.destinationNode) \/ ~validateNodePath(f.destinationNode)
          THEN Return(NoNode, "destinationNode")
          ELSE IF f.filePath \notin DOMAIN files THEN Return(NoNode, "file")
          ELSE IF rootObject(f).t = "ParseError" THEN Return(NoNode, "parse")
          ELSE IF rootObject(f).t # "Object" THEN Return(NoNode, "document")
          ELSE IF includesValue.t \in {"Null", "Undefined"}
          THEN Goto([f EXCEPT !.pc = "config", !.includesConfig = EmptyObject])
          ELSE IF includesValue.t # "Array" THEN Return(NoNode, "includes")
          ELSE Goto([f EXCEPT !.pc = "includes", !.includesConfig = EmptyObject,
                              !.index = 1])
    /\ UNCHANGED <<files, order, maxCycles, impl, merge, factory, threads>>

\* The loop over the includes has ended: readIncludesMember returns
IncludesDone ==
    /\ Running /\ Frame.pc = "includes"
    /\ Frame.index > Len(includesArray(Frame))
    /\ Goto([Frame EXCEPT !.pc = "config"])
    /\ UNCHANGED <<files, order, maxCycles, impl, merge, factory, threads>>

\* One include, up to its nested call of read
IncludeCall ==
    /\ Running /\ Frame.pc = "includes"
    /\ Frame.index <= Len(includesArray(Frame))
    /\ LET entry == IncludeEntry(includesArray(Frame)[Frame.index])
       IN IF ~entry.ok THEN Return(NoNode, "include")
          ELSE /\ Len(stack) < MaxDepth
               /\ stack' = Append([stack EXCEPT ![Len(stack)].pc = "included"],
                                  Invocation(entry.filePath, entry.sourceNode,
                                             entry.destinationNode))
               /\ ret' = NoReturn
    /\ UNCHANGED <<files, order, maxCycles, impl, merge, factory, threads>>

\* The return of a nested read with its failures passed over: the loop goes
\* on with the next include
IncludeReturn_FailureSkipped ==
    /\ Running /\ Frame.pc = "included" /\ ret.set
    /\ LET applied == applyObject(Frame.includesConfig, ret.node)
       IN IF ret.node = NoNode \/ ~applied.ok
          THEN Goto([Frame EXCEPT !.pc = "includes", !.index = @ + 1])
          ELSE Goto([Frame EXCEPT !.pc = "includes", !.includesConfig = applied.node,
                                  !.index = @ + 1])
    /\ UNCHANGED <<files, order, maxCycles, impl, merge, factory, threads>>

\* One include, from the return of its nested read
IncludeReturn ==
    /\ Running /\ Frame.pc = "included" /\ ret.set
    /\ LET applied == applyObject(Frame.includesConfig, ret.node)
       IN IF ret.node = NoNode THEN Return(NoNode, "included")
          ELSE IF ~applied.ok THEN Return(NoNode, "includeApply")
          ELSE Goto([Frame EXCEPT !.pc = "includes", !.includesConfig = applied.node,
                                  !.index = @ + 1])
    /\ UNCHANGED <<files, order, maxCycles, impl, merge, factory, threads>>

\* The 'config' member taken as the complete configuration instead of being
\* applied to the configuration of the includes
ReadConfig_ConfigReplaces ==
    /\ Running /\ Frame.pc = "config"
    /\ LET configMember == readConfigMember(rootObject(Frame))
       IN IF configMember = NoNode THEN Return(NoNode, "config")
          ELSE Goto([Frame EXCEPT !.pc = "resolve", !.completeConfig = configMember,
                                  !.composed = configMember,
                                  !.i = 0, !.result = "Unresolved"])
    /\ UNCHANGED <<files, order, maxCycles, impl, merge, factory, threads>>

\* The 'config' member is read and applied to the configuration of the includes
ReadConfig ==
    /\ Running /\ Frame.pc = "config"
    /\ LET configMember == readConfigMember(rootObject(Frame))
           applied == applyObject(Frame.includesConfig, configMember)
       IN IF configMember = NoNode THEN Return(NoNode, "config")
          ELSE IF ~applied.ok THEN Return(NoNode, "configApply")
          ELSE Goto([Frame EXCEPT !.pc = "resolve", !.completeConfig = applied.node,
                                  !.composed = applied.node,
                                  !.i = 0, !.result = "Unresolved"])
    /\ UNCHANGED <<files, order, maxCycles, impl, merge, factory, threads>>

\* The loop without the test of the result in its condition: it goes on
\* after a pass that returned Resolved
ResolveCycle_NoBreak ==
    /\ Running /\ Frame.pc = "resolve"
    /\ Frame.i < maxCycles
    /\ LET pass == ResolvePass(Frame.completeConfig, order)
           f == [Frame EXCEPT !.completeConfig = pass.t, !.passes = Append(@, pass.r),
                              !.before = Frame.completeConfig, !.visits = pass.v]
       IN IF pass.r = "Error"
          THEN ReturnFrom(f, NoNode, "resolveError")
          ELSE Goto([f EXCEPT !.i = @ + 1, !.result = pass.r])
    /\ UNCHANGED <<files, order, maxCycles, impl, merge, factory, threads>>

\* The loop with Error handled like Unresolved: it goes on after a pass that
\* returned Error
ResolveCycle_ErrorGoesOn ==
    /\ Running /\ Frame.pc = "resolve"
    /\ Frame.i < maxCycles /\ Frame.result = "Unresolved"
    /\ LET pass == ResolvePass(Frame.completeConfig, order)
           f == [Frame EXCEPT !.completeConfig = pass.t, !.passes = Append(@, pass.r),
                              !.before = Frame.completeConfig, !.visits = pass.v]
       IN Goto([f EXCEPT !.i = @ + 1,
                         !.result = IF pass.r = "Resolved" THEN "Resolved" ELSE "Unresolved"])
    /\ UNCHANGED <<files, order, maxCycles, impl, merge, factory, threads>>

\* One iteration of the loop that resolves the references
ResolveCycle ==
    /\ Running /\ Frame.pc = "resolve"
    /\ Frame.i < maxCycles /\ Frame.result = "Unresolved"
    /\ LET pass == ResolvePass(Frame.completeConfig, order)
           f == [Frame EXCEPT !.completeConfig = pass.t, !.passes = Append(@, pass.r),
                              !.before = Frame.completeConfig, !.visits = pass.v]
       IN IF pass.r = "Error"
          THEN ReturnFrom(f, NoNode, "resolveError")
          ELSE Goto([f EXCEPT !.i = @ + 1, !.result = pass.r])
    /\ UNCHANGED <<files, order, maxCycles, impl, merge, factory, threads>>

\* After the loop: the failure to resolve, or the transformation and the return
ReadFinish ==
    /\ Running /\ Frame.pc = "resolve"
    /\ ~(Frame.i < maxCycles /\ Frame.result = "Unresolved")
    /\ LET transformed == transformConfig(Frame.completeConfig, Frame.sourceNode,
                                          Frame.destinationNode)
       IN IF Frame.result = "Unresolved" THEN Return(NoNode, "unresolved")
          ELSE IF transformed = NoNode THEN Return(NoNode, "transform")
          ELSE Return(transformed, "end")
    /\ UNCHANGED <<files, order, maxCycles, impl, merge, factory, threads>>

Next ==
    \/ ReadOpen
    \/ IncludeCall
    \/ IncludeReturn
    \/ IncludesDone
    \/ ReadConfig
    \/ ResolveCycle
    \/ ReadFinish

Spec == Init /\ [][Next]_vars

\* ------------------------------------------------------------------------
\* ConfigNode::applyObject by itself
\* ------------------------------------------------------------------------

\* How many times the same source is applied
MaxApplies == 2

\* The nodes applyObject is called on: leaves, Objects of leaves, and
\* Objects of both, over the names a and b
MergeLeaves == {NullNode, ValueNode(1), ArrayNode(<<ValueNode(1)>>)}

MergeInner ==
    {EmptyObject, ObjectNode("a" :> NullNode), ObjectNode("a" :> ValueNode(1)),
     ObjectNode("a" :> ValueNode(2)), ObjectNode("a" :> EmptyObject),
     ObjectNode("a" :> ObjectNode("a" :> ValueNode(1)))}

MergeObjects ==
    UNION {{ObjectNode(ms) : ms \in [names -> MergeLeaves \cup MergeInner]} :
           names \in SUBSET {"a", "b"}}

MergeNodes == MergeObjects \cup {NullNode, ValueNode(1)}

InitApply ==
    \E d \in MergeNodes, s \in MergeNodes :
        /\ merge = [applied |-> 0, dst |-> d, src |-> s, ok |-> TRUE,
                    first |-> d, before |-> d]
        /\ files = <<>>
        /\ order = <<"a", "b", "c">>
        /\ maxCycles = 1
        /\ stack = <<>>
        /\ ret = NoReturn
        /\ impl = NewImpl
        /\ factory = NewFactory
        /\ threads = NoThreads

\* dst.applyObject(src); the model keeps dst as it was before the call
\* (before) and before the first call (first)
ApplyObject ==
    /\ merge.applied < MaxApplies
    /\ LET applied == applyObject(merge.dst, merge.src)
       IN merge' = [merge EXCEPT !.applied = @ + 1, !.before = merge.dst,
                                 !.dst = applied.node, !.ok = applied.ok]
    /\ UNCHANGED <<files, order, maxCycles, stack, ret, impl, factory, threads>>

NextApply == ApplyObject

SpecApply == InitApply /\ [][NextApply]_vars

\* ------------------------------------------------------------------------
\* The reader of ConfigReader.cpp: ConfigReader::read and its Impl
\* ------------------------------------------------------------------------

RECURSIVE ConfigReader_readJsonValue(_, _)

ConfigReader_readJsonArray(jsonArray, currentNodePath) ==
    LET elementNodes ==
            [i \in 1..Len(jsonArray.v) |->
                ConfigReader_readJsonValue(
                    jsonArray.v[i], appendNodeToPath(currentNodePath, ToString(i - 1)))]
    IN IF \E i \in 1..Len(jsonArray.v) : elementNodes[i] = NoNode THEN NoNode
       ELSE ArrayNode(elementNodes)

\* The member name is the key as it is: a key with a decorator is no name
ConfigReader_readJsonObject(jsonObject, currentNodePath) ==
    LET keys == DOMAIN jsonObject.v
        memberNode(key) ==
            ConfigReader_readJsonValue(jsonObject.v[key],
                                       appendNodeToPath(currentNodePath, key[1]))
    IN IF \E key \in keys : ~validateNodeName(key) THEN NoNode
       ELSE IF \E key \in keys : memberNode(key) = NoNode THEN NoNode
       ELSE ObjectNode([name \in {key[1] : key \in keys} |-> memberNode(<<name>>)])

ConfigReader_readJsonValue(jsonValue, currentNodePath) ==
    CASE jsonValue.t = "Null" -> NullNode
      [] jsonValue.t \in {"Bool", "Double", "String"} -> ValueNode(toVariant(jsonValue))
      [] jsonValue.t = "Array" -> ConfigReader_readJsonArray(jsonValue, currentNodePath)
      [] jsonValue.t = "Object" -> ConfigReader_readJsonObject(jsonValue, currentNodePath)
      [] OTHER -> NoNode

\* Every item of the 'includes' member must be a JSON object; none is read
ConfigReader_readIncludesMember(root) ==
    LET includesValue == JsonValue(root, <<"includes">>)
    IN IF includesValue.t = "Null" THEN NullNode
       ELSE IF includesValue.t # "Array" THEN NoNode
       ELSE IF \E i \in 1..Len(includesValue.v) : includesValue.v[i].t # "Object"
            THEN NoNode
       ELSE EmptyObject

ConfigReader_readConfigMember(root) ==
    LET configValue == JsonValue(root, <<"config">>)
    IN IF configValue.t = "Null" THEN NullNode
       ELSE IF configValue.t # "Object" THEN NoNode
       ELSE ConfigReader_readJsonObject(configValue, <<"/">>)

\* The files and the call of InitInclude, read by ConfigReader::read
InitConfigReader == InitInclude

\* ConfigReader::read -> Impl::read(filePath, sourceNode, destinationNode),
\* from its entry to its return: it makes no nested call
ConfigReader_read ==
    /\ Running /\ Frame.pc = "open"
    /\ LET f == Frame
           sourceOk == isAbsoluteNodePath(f.sourceNode) /\ validateNodePath(f.sourceNode)
           destinationOk == /\ isAbsoluteNodePath(f.destinationNode)
                            /\ validateNodePath(f.destinationNode)
           includesConfig == ConfigReader_readIncludesMember(rootObject(f))
           config == ConfigReader_readConfigMember(rootObject(f))
           applied == applyObject(config, includesConfig)
           g == [f EXCEPT !.includesConfig = includesConfig, !.composed = applied.node,
                          !.completeConfig = applied.node]
       IN /\ impl' = [m_sourceNode |-> IF sourceOk THEN f.sourceNode ELSE impl.m_sourceNode,
                      m_destinationNode |-> IF sourceOk /\ destinationOk
                                            THEN f.destinationNode
                                            ELSE impl.m_destinationNode]
          /\ IF ~sourceOk THEN Return(NoNode, "sourceNode")
             ELSE IF ~destinationOk THEN Return(NoNode, "destinationNode")
             ELSE IF f.filePath \notin DOMAIN files THEN Return(NoNode, "file")
             ELSE IF rootObject(f).t = "ParseError" THEN Return(NoNode, "parse")
             ELSE IF rootObject(f).t # "Object" THEN Return(NoNode, "document")
             ELSE IF includesConfig = NoNode THEN Return(NoNode, "includes")
             ELSE IF config = NoNode THEN Return(NoNode, "config")
             ELSE IF ~applied.ok THEN Return(NoNode, "configApply")
             ELSE ReturnFrom(g, applied.node, "end")
    /\ UNCHANGED <<files, order, maxCycles, merge, factory, threads>>

NextConfigReader == ConfigReader_read

SpecConfigReader == InitConfigReader /\ [][NextConfigReader]_vars

\* ------------------------------------------------------------------------
\* ConfigReaderFactory
\* ------------------------------------------------------------------------

\* The types the factory is called with: the empty string, the type of the
\* reader registered by the constructor, another type
FactoryTypes == {<<>>, CppConfigFramework, <<"Other">>}

\* The readers handed to registerConfigReader: a null pointer, two readers
NullReader == "nullptr"

FactoryReaders == {NullReader, "ReaderA", "ReaderB"}

\* What the read of a reader may return: a null pointer, a tree
ReaderResults == {NoNode, EmptyObject, ObjectNode("a" :> ValueNode(1))}

\* What the read of a reader may leave in *error
ReaderErrors == {<<>>, <<"reader error">>}

\* The contents of *error before a call, and the value the model uses for
\* error == nullptr
ErrorNotSet == <<"not set">>

NoErrorOut == <<"nullptr">>

\* The factory after construction, no file being read
InitFactory ==
    /\ factory = NewFactory
    /\ threads = NoThreads
    /\ files = <<>>
    /\ order = <<"a", "b", "c">>
    /\ maxCycles = 1
    /\ stack = <<>>
    /\ ret = NoReturn
    /\ impl = NewImpl
    /\ merge = NoMerge

\* The record of a call of the factory: the call and its type argument, the
\* value returned, *error after the call, the reader (the one registered, or
\* the one whose read was called, with what that read returned), and the
\* readers before the call
FactoryCall(readers, call, type, returned, error, reader, readerReturned) ==
    [m_configReaders |-> readers, call |-> call, type |-> type, returned |-> returned,
     error |-> error, reader |-> reader, readerReturned |-> readerReturned,
     before |-> factory.m_configReaders]

\* registerConfigReader without the test of its arguments
Factory_registerConfigReader_Unchecked ==
    /\ \E type \in FactoryTypes, configReader \in FactoryReaders :
          factory' = FactoryCall([t \in DOMAIN factory.m_configReaders \cup {type} |->
                                     IF t = type THEN configReader
                                     ELSE factory.m_configReaders[t]],
                                 "registerConfigReader", type, TRUE, ErrorNotSet,
                                 configReader, NoNode)
    /\ UNCHANGED <<files, order, maxCycles, stack, ret, impl, merge, threads>>

\* registerConfigReader(type, configReader)
Factory_registerConfigReader ==
    /\ \E type \in FactoryTypes, configReader \in FactoryReaders :
          IF type = <<>> \/ configReader = NullReader
          THEN factory' = FactoryCall(factory.m_configReaders, "registerConfigReader", type,
                                      FALSE, ErrorNotSet, configReader, NoNode)
          ELSE factory' = FactoryCall([t \in DOMAIN factory.m_configReaders \cup {type} |->
                                          IF t = type THEN configReader
                                          ELSE factory.m_configReaders[t]],
                                      "registerConfigReader", type, TRUE, ErrorNotSet,
                                      configReader, NoNode)
    /\ UNCHANGED <<files, order, maxCycles, stack, ret, impl, merge, threads>>

\* readConfig(type, ..., error): the read of the reader found is a call out
\* of the factory, which returns any of ReaderResults and leaves any of
\* ReaderErrors in *error
Factory_readConfig ==
    /\ \E type \in FactoryTypes, errorOut \in {NoErrorOut, ErrorNotSet} :
          IF type \notin DOMAIN factory.m_configReaders
          THEN factory' = FactoryCall(factory.m_configReaders, "readConfig", type, NoNode,
                                      IF errorOut = NoErrorOut THEN NoErrorOut
                                      ELSE <<"Unsupported configuration type: ">> \o type,
                                      NullReader, NoNode)
          ELSE \E result \in ReaderResults, readerError \in ReaderErrors :
                  factory' = FactoryCall(factory.m_configReaders, "readConfig", type, result,
                                         IF errorOut = NoErrorOut THEN NoErrorOut
                                         ELSE readerError,
                                         factory.m_configReaders[type], result)
    /\ UNCHANGED <<files, order, maxCycles, stack, ret, impl, merge, threads>>

NextFactory == Factory_registerConfigReader \/ Factory_readConfig

SpecFactory == InitFactory /\ [][NextFactory]_vars

\* ------------------------------------------------------------------------
\* Two threads that read through the factory at the same time
\* ------------------------------------------------------------------------

Threads == {1, 2}

\* ConfigReader::Impl::read of ConfigReader.cpp from the opening of the file
\* on: the node it returns
ConfigReader_readFile(filePath) ==
    IF filePath \notin DOMAIN files THEN NoNode
    ELSE LET root == files[filePath]
             includesConfig == ConfigReader_readIncludesMember(root)
             config == ConfigReader_readConfigMember(root)
             applied == applyObject(config, includesConfig)
         IN IF root.t # "Object" THEN NoNode
            ELSE IF includesConfig = NoNode THEN NoNode
            ELSE IF config = NoNode THEN NoNode
            ELSE IF ~applied.ok THEN NoNode
            ELSE applied.node

\* What ConfigReader::read returns when no other thread runs
ConfigReader_readAlone(filePath, sourceNode, destinationNode) ==
    IF ~isAbsoluteNodePath(sourceNode) \/ ~validateNodePath(sourceNode) THEN NoNode
    ELSE IF ~isAbsoluteNodePath(destinationNode) \/ ~validateNodePath(destinationNode)
    THEN NoNode
    ELSE ConfigReader_readFile(filePath)

\* The source and destination node paths a thread calls read with: the root,
\* a node moved, a source and a destination that are not absolute
ThreadCalls ==
    << <<Root, Root>>, <<Abs("c"), Abs2("a", "b")>>, <<Key("a"), Root>>, <<Root, Key("a")>> >>

\* The documents the threads read
ThreadDocuments ==
    << Document(JArr(<<>>), TopConfigs[1]),
       Document(JArr(<<>>), XConfigs[1]),
       Document(JNull, YConfigs[2]) >>

\* A thread at its call of ConfigReaderFactory::readConfig
ThreadCall(filePath, sourceNode, destinationNode) ==
    [pc |-> "readConfig", filePath |-> filePath, sourceNode |-> sourceNode,
     destinationNode |-> destinationNode, result |-> NoNode, wrote |-> {}]

\* Two threads, each about to read a document of its own through the
\* factory as constructed (one reader, one Impl object)
InitThreads ==
    \E d1, d2 \in DOMAIN ThreadDocuments, c1, c2 \in DOMAIN ThreadCalls :
        /\ d1 # d2
        /\ files = (top :> ThreadDocuments[d1]) @@ (fileX :> ThreadDocuments[d2])
        /\ threads = [t |-> (1 :> ThreadCall(top, ThreadCalls[c1][1], ThreadCalls[c1][2]))
                            @@ (2 :> ThreadCall(fileX, ThreadCalls[c2][1], ThreadCalls[c2][2])),
                      racing |-> {}, crashed |-> FALSE]
        /\ factory = NewFactory
        /\ impl = NewImpl
        /\ order = <<"a", "b", "c">>
        /\ maxCycles = 1
        /\ stack = <<>>
        /\ ret = NoReturn
        /\ merge = NoMerge

\* The field of the Impl object a thread is assigning to, "" when it is not
\* inside an assignment
Assigning(pc) ==
    CASE pc = "assignSource" -> "m_sourceNode"
      [] pc = "assignDestination" -> "m_destinationNode"
      [] OTHER -> ""

\* ConfigReaderFactory::readConfig up to the call of the reader: the reader
\* of the type is looked up in the map, which no thread writes
Thread_readConfig(t) ==
    /\ ~threads.crashed /\ threads.t[t].pc = "readConfig"
    /\ threads' = [threads EXCEPT !.t[t].pc =
                       IF CppConfigFramework \in DOMAIN factory.m_configReaders
                       THEN "source" ELSE "done"]
    /\ UNCHANGED <<files, order, maxCycles, stack, ret, impl, merge, factory>>

\* The validation of the source or of the destination node path; a valid
\* one is then assigned to the field of the Impl object, and the assignment
\* starts here.  The threads inside an assignment to the same field at the
\* same time are remembered (racing).
Thread_validate(t) ==
    /\ ~threads.crashed /\ threads.t[t].pc \in {"source", "destination"}
    /\ LET me == threads.t[t]
           path == IF me.pc = "source" THEN me.sourceNode ELSE me.destinationNode
           next == IF me.pc = "source" THEN "assignSource" ELSE "assignDestination"
           others == {u \in Threads \ {t} : Assigning(threads.t[u].pc) = Assigning(next)}
       IN IF ~isAbsoluteNodePath(path) \/ ~validateNodePath(path)
          THEN threads' = [threads EXCEPT !.t[t].pc = "done", !.t[t].result = NoNode]
          ELSE threads' = [threads EXCEPT !.t[t].pc = next,
                                          !.racing = IF others = {} THEN @
                                                     ELSE @ \cup others \cup {t}]
    /\ UNCHANGED <<files, order, maxCycles, stack, ret, impl, merge, factory>>

\* The end of the assignment m_sourceNode = sourceNode or m_destinationNode =
\* destinationNode.  The QString is assigned without a lock: when another
\* thread was assigning to it at the same time the behaviour is undefined,
\* and the model lets the field take the value of this thread, keep the
\* value it has, or the process end (the data of the old string is released
\* twice).
Thread_assign(t) ==
    /\ ~threads.crashed /\ Assigning(threads.t[t].pc) # ""
    /\ LET me == threads.t[t]
           field == Assigning(me.pc)
           value == IF field = "m_sourceNode" THEN me.sourceNode ELSE me.destinationNode
           next == IF field = "m_sourceNode" THEN "destination" ELSE "file"
           goOn == [threads EXCEPT !.t[t].pc = next, !.t[t].wrote = @ \cup {field}]
       IN \/ /\ impl' = [impl EXCEPT ![field] = value]
             /\ threads' = goOn
          \/ /\ t \in threads.racing
             /\ UNCHANGED impl
             /\ threads' = goOn
          \/ /\ t \in threads.racing
             /\ UNCHANGED impl
             /\ threads' = [threads EXCEPT !.crashed = TRUE]
    /\ UNCHANGED <<files, order, maxCycles, stack, ret, merge, factory>>

\* The rest of read, which works on the locals of the invocation
Thread_readFile(t) ==
    /\ ~threads.crashed /\ threads.t[t].pc = "file"
    /\ threads' = [threads EXCEPT !.t[t].pc = "done",
                                  !.t[t].result = ConfigReader_readFile(threads.t[t].filePath)]
    /\ UNCHANGED <<files, order, maxCycles, stack, ret, impl, merge, factory>>

NextThreads ==
    \E t \in Threads :
        \/ Thread_readConfig(t)
        \/ Thread_validate(t)
        \/ Thread_assign(t)
        \/ Thread_readFile(t)

SpecThreads == InitThreads /\ [][NextThreads]_vars

\* ------------------------------------------------------------------------
\* Properties
\* ------------------------------------------------------------------------

\* The invocations of read the state shows: those in progress, and the one
\* that returned last
Shown == {stack[k] : k \in DOMAIN stack} \cup (IF ret.set THEN {ret} ELSE {})

\* The types of the nodes of a tree, the config overrides of its derived
\* objects included
RECURSIVE Kinds(_)
Kinds(n) ==
    {n.type} \cup
    CASE n.type \in {"Array", "DerivedArray"} ->
            UNION {Kinds(n.elements[i]) : i \in 1..Len(n.elements)}
      [] n.type = "Object" -> UNION {Kinds(n.members[k]) : k \in DOMAIN n.members}
      [] n.type = "DerivedObject" -> Kinds(n.config)
      [] OTHER -> {}

PlainKinds == {"Null", "Value", "Array", "Object"}

\* C1: whenever a pass of the resolver over the root has returned Resolved,
\* the tree holds only Null, Value, Array and Object nodes, and so does
\* every tree that read returns.
C1_ResolvedTreeIsPlain ==
    /\ \A f \in Shown :
          (Len(f.passes) > 0 /\ Last(f.passes) = "Resolved")
              => Kinds(f.completeConfig) \subseteq PlainKinds
    /\ (ret.set /\ ret.node # NoNode) => Kinds(ret.node) \subseteq PlainKinds

\* C1 happens: read returns a tree after a second pass that started from a
\* tree with unresolved nodes
C1_Witness ==
    /\ ret.set /\ ret.node # NoNode
    /\ ret.passes = <<"Unresolved", "Resolved">>
    /\ ~(Kinds(ret.before) \subseteq PlainKinds)

\* Every pass but the last has returned Unresolved
OnlyLastDecides(passes) == \A j \in 1..(Len(passes) - 1) : passes[j] = "Unresolved"

\* Some pass k has returned Resolved and every pass before it Unresolved
ResolvedAtSomePass(passes) ==
    Len(passes) >= 1 /\ Last(passes) = "Resolved" /\ OnlyLastDecides(passes)

\* The bound on the passes: at most maxCycles, and none after a pass that
\* did not return Unresolved
PassesBounded == \A f \in Shown : Len(f.passes) <= maxCycles /\ OnlyLastDecides(f.passes)

\* C2 as stated: the resolver makes at most max_cycles passes and none after
\* the first Resolved, and read succeeds exactly when some pass returned
\* Resolved after passes that all returned Unresolved.
C2_AsStated ==
    /\ PassesBounded
    /\ ret.set => ((ret.node # NoNode) <=> ResolvedAtSomePass(ret.passes))

\* C2, amended: the resolver makes at most max_cycles passes and none after
\* the first Resolved; read gets past the resolver exactly when some pass
\* returned Resolved after passes that all returned Unresolved, and it
\* succeeds exactly when, besides, the source node path names a node of the
\* resolved tree.
C2_PassesBoundedAndDecisive ==
    /\ PassesBounded
    /\ ret.set =>
          /\ (ret.at \in {"transform", "end"}) <=> ResolvedAtSomePass(ret.passes)
          /\ (ret.node # NoNode) <=>
                 /\ ResolvedAtSomePass(ret.passes)
                 /\ NodeAt(ret.completeConfig, ret.sourceNode) # NoNode

\* C2 happens: read succeeds at the last pass the bound allows
C2_Witness ==
    /\ ret.set /\ ret.node # NoNode
    /\ maxCycles = 2 /\ ret.passes = <<"Unresolved", "Resolved">>

\* The locations of the NodeReference nodes a tree holds in its Object nodes
RECURSIVE RefLocs(_, _)
RefLocs(n, loc) ==
    CASE n.type = "NodeReference" -> {loc}
      [] n.type = "Object" ->
            UNION {RefLocs(n.members[k], Append(loc, k)) : k \in DOMAIN n.members}
      [] OTHER -> {}

\* The NodeReference at location l names the node at location m
PointsAt(tree, l, m) ==
    LET ref == GetAt(tree, l).nodeReference
    IN isAbsoluteNodePath(ref) /\ PathNames(ref) = m

\* The references that point at themselves, or at a reference that points
\* back at them
CycleLocs(tree) ==
    IF ~IsObject(tree) THEN {}
    ELSE {l \in RefLocs(tree, <<>>) :
             \/ PointsAt(tree, l, l)
             \/ \E m \in RefLocs(tree, <<>>) :
                    m # l /\ PointsAt(tree, l, m) /\ PointsAt(tree, m, l)}

C4_ErrorAbortsRead ==
    /\ \A k \in DOMAIN stack : \A j \in DOMAIN stack[k].passes :
          stack[k].passes[j] # "Error"
    /\ (ret.set /\ \E j \in DOMAIN ret.passes : ret.passes[j] = "Error") =>
          /\ Last(ret.passes) = "Error" /\ OnlyLastDecides(ret.passes)
          /\ ret.at = "resolveError"
          /\ ret.node = NoNode

\* C4 happens: a pass has resolved part of the tree and the next pass has
\* returned Error
C4_Witness ==
    /\ ret.set /\ ret.passes = <<"Unresolved", "Error">>
    /\ ret.before # ret.composed
    /\ \E j \in DOMAIN ret.visits : ret.visits[j].type = "DerivedObject"

\* C5: every invocation of read terminates, also when files include each
\* other or themselves.  read is a function of its arguments and of the
\* files, which it does not change, so an invocation that runs inside an
\* invocation with the same arguments repeats it, nested call included,
\* without end: read terminates only if no invocation of read runs inside
\* one with the same file, source node and destination node.
C5_NoReadInsideItself ==
    \A i, j \in DOMAIN stack :
        i < j => ~(/\ stack[i].filePath = stack[j].filePath
                   /\ stack[i].sourceNode = stack[j].sourceNode
                   /\ stack[i].destinationNode = stack[j].destinationNode)

\* The node the path names for a node whose parent is at parentLoc of tree
NamedFrom(tree, parentLoc, path) ==
    nodeAtPath(<<[tree |-> tree, at |-> <<>>]>>, 1, parentLoc, path)

IsPlain(n) == Kinds(n) \subseteq PlainKinds

\* The call j of the last pass of f was on a NodeReference of the
\* configuration whose path named a plain node when the pass started
ReferenceToPlainNode(f, j) ==
    LET e == f.visits[j]
    IN /\ e.k = 1 /\ e.type = "NodeReference"
       /\ LET target == NamedFrom(f.before, Front(e.loc),
                                  GetAt(f.before, e.loc).nodeReference)
          IN target # NoNode /\ IsPlain(target)

\* The configuration {"&a": "/b", "b": 2} and what it resolves to
ForwardReference == ObjectNode(("a" :> ReferenceNode(Abs("b"))) @@ ("b" :> ValueNode(2)))

ForwardReferenceResolved == ObjectNode(("a" :> ValueNode(2)) @@ ("b" :> ValueNode(2)))

\* C6: a NodeReference whose path names an existing plain node, visited
\* before or after it, is replaced in that pass by a node equal to the
\* target, the target stays as it was, and the call reports Resolved;
\* {"&a": "/b", "b": 2} reads in one pass as {a = 2, b = 2}.
C6_ReferenceToPlainNodeIsCopied ==
    /\ \A f \in Shown : \A j \in DOMAIN f.visits :
          ReferenceToPlainNode(f, j) =>
              LET e == f.visits[j]
                  ref == GetAt(f.before, e.loc).nodeReference
                  target == NamedFrom(f.before, Front(e.loc), ref)
              IN /\ e.r = "Resolved"
                 /\ GetAt(f.completeConfig, e.loc) = target
                 /\ NamedFrom(f.completeConfig, Front(e.loc), ref) = target
    /\ (ret.set /\ ret.composed = ForwardReference /\ ret.sourceNode = Root
                /\ ret.destinationNode = Root) =>
          (ret.passes = <<"Resolved">> /\ ret.node = ForwardReferenceResolved)

\* C6 happens: the reference a is visited before its target b, and read
\* returns the tree with the copy
C6_Witness ==
    /\ ret.set /\ ret.composed = ForwardReference /\ order = <<"a", "b", "c">>
    /\ ret.node = ForwardReferenceResolved
    /\ ReferenceToPlainNode(ret, 1)

\* The bases of a derived object applied in list order onto acc
RECURSIVE FoldBases(_, _, _, _)
FoldBases(tree, parentLoc, bases, acc) ==
    IF Len(bases) = 0 THEN acc
    ELSE FoldBases(tree, parentLoc, Tail(bases),
                   applyObject(acc, NamedFrom(tree, parentLoc, Head(bases))).node)

\* A member of a config override that is plain, or a reference by absolute
\* path to a plain node of the tree
ResolvableMember(tree, n) ==
    \/ IsPlain(n)
    \/ /\ n.type = "NodeReference" /\ isAbsoluteNodePath(n.nodeReference)
       /\ NodeAt(tree, n.nodeReference) # NoNode
       /\ IsPlain(NodeAt(tree, n.nodeReference))

\* The config override with such references replaced by the nodes they name
ResolvedOverride(tree, config) ==
    IF config.type = "Null" THEN config
    ELSE ObjectNode([k \in DOMAIN config.members |->
                        IF config.members[k].type = "NodeReference"
                        THEN NodeAt(tree, config.members[k].nodeReference)
                        ELSE config.members[k]])

\* The call j of the last pass of f was on a DerivedObject of the
\* configuration whose bases were all plain Objects when the pass started,
\* and whose override was null or an Object of resolvable members
DerivedFromPlainBases(f, j) ==
    LET e == f.visits[j]
    IN /\ e.k = 1 /\ e.type = "DerivedObject"
       /\ LET node == GetAt(f.before, e.loc)
          IN /\ \A i \in DOMAIN node.bases :
                   LET base == NamedFrom(f.before, Front(e.loc), node.bases[i])
                   IN base # NoNode /\ IsObject(base) /\ IsPlain(base)
             /\ \/ node.config.type = "Null"
                \/ /\ IsObject(node.config)
                   /\ \A k \in DOMAIN node.config.members :
                         ResolvableMember(f.before, node.config.members[k])

\* The configuration with a = {a: 1, b: {a: 1}}, b = {a: 2, b: {b: 2}} and c
\* derived from /a and /b with the override {b: 7}
TwoBases ==
    ObjectNode(("a" :> ObjectNode(("a" :> ValueNode(1))
                                  @@ ("b" :> ObjectNode("a" :> ValueNode(1)))))
               @@ ("b" :> ObjectNode(("a" :> ValueNode(2))
                                     @@ ("b" :> ObjectNode("b" :> ValueNode(2)))))
               @@ ("c" :> DerivedObjectNode(<<Abs("a"), Abs("b")>>,
                                            ObjectNode("b" :> ValueNode(7)))))

TwoBasesDerived == ObjectNode(("a" :> ValueNode(2)) @@ ("b" :> ValueNode(7)))

\* C8: a DerivedObject whose bases all exist and are plain Objects resolves
\* to the bases applied in list order onto an empty Object, with the
\* resolved override applied last: a later base overrides an earlier one
\* and the override overrides the bases.
C8_DerivedObjectIsBasesThenOverride ==
    /\ \A f \in Shown : \A j \in DOMAIN f.visits :
          DerivedFromPlainBases(f, j) =>
              LET e == f.visits[j]
                  node == GetAt(f.before, e.loc)
                  folded == FoldBases(f.before, Front(e.loc), node.bases, EmptyObject)
                  override == ResolvedOverride(f.before, node.config)
                  expected == IF override.type = "Null" THEN folded
                              ELSE applyObject(folded, override).node
              IN e.r = "Resolved" /\ GetAt(f.completeConfig, e.loc) = expected
    /\ (ret.set /\ ret.composed = TwoBases) =>
          (ret.passes = <<"Resolved">> /\ ret.completeConfig.members["c"] = TwoBasesDerived)

\* C8 happens: read has resolved the object derived from two bases that
\* both define a and b, with an override that defines b
C8_Witness ==
    /\ ret.set /\ ret.composed = TwoBases /\ ret.node # NoNode
    /\ DerivedFromPlainBases(ret, 1)

\* C9: for every Object x, x.applyObject(x) succeeds and leaves x as it was;
\* and applying the same source a second time changes nothing.
C9_MergeIsIdempotent ==
    /\ (merge.applied >= 1 /\ IsObject(merge.first) /\ merge.src = merge.first) =>
          (merge.ok /\ merge.dst = merge.first)
    /\ (merge.applied >= 2 /\ merge.ok) => merge.dst = merge.before

\* C9 happens: the first application has changed the destination, the
\* second has been made
C9_Witness ==
    /\ merge.applied = 2 /\ merge.ok
    /\ merge.dst # merge.first

\* The locations of the nodes of a tree that are not Objects, reached
\* through its Object nodes
RECURSIVE LeafLocs(_, _)
LeafLocs(n, loc) ==
    IF IsObject(n)
    THEN UNION {LeafLocs(n.members[k], Append(loc, k)) : k \in DOMAIN n.members}
    ELSE {loc}

\* The absolute node path of a location
RECURSIVE PathOf(_)
PathOf(loc) ==
    IF Len(loc) = 0 THEN <<"/">>
    ELSE IF Len(loc) = 1 THEN <<"/", loc[1]>>
    ELSE PathOf(Front(loc)) \o <<"/", Last(loc)>>

\* C10: after a.applyObject(b) on Objects a and b, every path of b that
\* leads to a node other than an Object names in a a node equal to the
\* one it names in b.
C10_MergeOverrides ==
    (merge.applied >= 1 /\ IsObject(merge.first) /\ IsObject(merge.src)) =>
        /\ merge.ok
        /\ \A loc \in LeafLocs(merge.src, <<>>) :
              NodeAt(merge.dst, PathOf(loc)) = NodeAt(merge.src, PathOf(loc))

\* C10 happens: the source has replaced a node of the destination by a
\* different one two levels down, and the destination has kept a member
\* the source does not have
C10_Witness ==
    /\ merge.applied = 1 /\ merge.ok
    /\ \E loc \in LeafLocs(merge.src, <<>>) :
          /\ Len(loc) = 2
          /\ NodeAt(merge.first, PathOf(loc)) \notin {NoNode, NodeAt(merge.src, PathOf(loc))}
    /\ \E k \in DOMAIN merge.first.members :
          k \notin DOMAIN merge.src.members /\ merge.dst.members[k] = merge.first.members[k]

\* An item of an 'includes' member that names a file and nothing else
WholeInclude(item) ==
    item.t = "Object" /\ DOMAIN item.v = {<<"file_path">>} /\ item.v[<<"file_path">>].t = "String"

\* A file without includes whose 'config' member is an Object of plain nodes
LeafFile(filePath) ==
    /\ filePath \in DOMAIN files
    /\ files[filePath].t = "Object"
    /\ JsonValue(files[filePath], <<"includes">>).t = "Undefined"
    /\ LET tree == readConfigMember(files[filePath])
       IN tree # NoNode /\ IsObject(tree) /\ IsPlain(tree)

\* The document of the invocation f is composed of whole leaf files and of
\* a 'config' member that is an Object of plain nodes
ComposedOfLeafFiles(f) ==
    /\ f.filePath \in DOMAIN files /\ rootObject(f).t = "Object"
    /\ JsonValue(rootObject(f), <<"includes">>).t = "Array"
    /\ Len(includesArray(f)) > 0
    /\ \A i \in 1..Len(includesArray(f)) :
          /\ WholeInclude(includesArray(f)[i])
          /\ LeafFile(includesArray(f)[i].v[<<"file_path">>].v)
    /\ LET tree == readConfigMember(rootObject(f))
       IN tree # NoNode /\ IsObject(tree) /\ IsPlain(tree)

\* The contributors of that document by rising priority: the included
\* files in the order of the 'includes' member, then its own 'config'
Contributors(f) ==
    [i \in 1..(Len(includesArray(f)) + 1) |->
        IF i <= Len(includesArray(f))
        THEN readConfigMember(files[includesArray(f)[i].v[<<"file_path">>].v])
        ELSE readConfigMember(rootObject(f))]

\* A tree has a say on the location: it holds a node there, or a node that
\* is no Object on the way there
RECURSIVE Touches(_, _)
Touches(n, loc) ==
    IF Len(loc) = 0 \/ ~IsObject(n) THEN TRUE
    ELSE IF Head(loc) \in DOMAIN n.members THEN Touches(n.members[Head(loc)], Tail(loc))
    ELSE FALSE

\* C7: in the tree composed for a document, every path that leads to a
\* value in a contributor, and on which no contributor of higher priority
\* has a say, leads to that value: the 'config' member of the document
\* overrides every include, a later include overrides an earlier one, and
\* a path only one contributor defines keeps the value of that contributor.
C7_HighestPriorityContributorWins ==
    (/\ ret.set /\ Len(stack) = 0
     /\ ret.sourceNode = Root /\ ret.destinationNode = Root
     /\ ComposedOfLeafFiles(ret)) =>
        /\ ret.node # NoNode
        /\ \A c \in DOMAIN Contributors(ret) :
              \A loc \in LeafLocs(Contributors(ret)[c], <<>>) :
                  (\A h \in DOMAIN Contributors(ret) :
                       h > c => ~Touches(Contributors(ret)[h], loc))
                      => NodeAt(ret.node, PathOf(loc)) = GetAt(Contributors(ret)[c], loc)

\* C11: a pass over a tree of Null, Value, Array and Object nodes only
\* returns Resolved, every call under it returns Resolved, and the tree is
\* left as it was; a read whose composed tree is such a tree makes exactly
\* one pass and, with source and destination "/", returns the composed tree.
C11_PlainTreeIsStable ==
    /\ \A f \in Shown :
          (Len(f.passes) > 0 /\ IsPlain(f.before)) =>
              /\ Last(f.passes) = "Resolved"
              /\ \A j \in DOMAIN f.visits : f.visits[j].r = "Resolved"
              /\ f.completeConfig = f.before
    /\ \A f \in Shown :
          (Len(f.passes) > 0 /\ IsPlain(f.composed)) =>
              (f.passes = <<"Resolved">> /\ f.completeConfig = f.composed)
    /\ (ret.set /\ ret.composed # NoNode /\ IsPlain(ret.composed)) =>
          /\ ret.passes = <<"Resolved">>
          /\ (ret.sourceNode = Root /\ ret.destinationNode = Root) =>
                 (ret.at = "end" /\ ret.node = ret.composed)

\* C11 happens: read has returned, after one pass, a composed tree with an
\* Array and an Object inside an Object
C11_Witness ==
    /\ ret.set /\ ret.at = "end" /\ IsPlain(ret.composed)
    /\ ret.node = ret.composed /\ ret.passes = <<"Resolved">>
    /\ \E k \in DOMAIN ret.composed.members : ret.composed.members[k].type = "Array"
    /\ \E k \in DOMAIN ret.composed.members :
          /\ IsObject(ret.composed.members[k])
          /\ \E m \in DOMAIN ret.composed.members[k].members :
                IsObject(ret.composed.members[k].members[m])

\* The document of the invocation f has an 'includes' array with an item
\* that is not an object, names another type, has no file_path string, or
\* has a source_node or destination_node that is not a string
HasMalformedInclude(f) ==
    /\ f.filePath \in DOMAIN files /\ rootObject(f).t = "Object"
    /\ JsonValue(rootObject(f), <<"includes">>).t = "Array"
    /\ \E i \in 1..Len(includesArray(f)) : ~IncludeEntry(includesArray(f)[i]).ok

\* A nested read has just returned to the loop over the includes
NestedReturned == Running /\ Frame.pc = "included" /\ ret.set

\* The invocation on top of the stack returns a null pointer in this step
OuterFails == stack' = Front(stack) /\ ret'.set /\ ret'.node = NoNode

\* C13: a read of a document with a malformed include entry returns a null
\* pointer; and when a nested read has returned a null pointer, or a tree
\* that cannot be applied to the configuration of the includes, the next
\* step of the including read is to return a null pointer.
C13_IncludeFailureFailsRead ==
    /\ [](ret.set /\ HasMalformedInclude(ret) => ret.node = NoNode)
    /\ [][(NestedReturned /\ ret.node = NoNode) => (OuterFails /\ ret'.at = "included")]_vars
    /\ [][(NestedReturned /\ ret.node # NoNode /\ ~IsObject(ret.node))
              => (OuterFails /\ ret'.at = "includeApply")]_vars

\* C13 happens: the read of top.json has failed because the read of the
\* file it includes, whose references do not converge, has failed
C13_Witness ==
    /\ ret.set /\ stack = <<>> /\ ret.filePath = top
    /\ ret.at = "included" /\ ret.node = NoNode
    /\ fileX \in DOMAIN files
    /\ Len(includesArray(ret)) = 1
    /\ IncludeEntry(includesArray(ret)[1]).ok
    /\ IncludeEntry(includesArray(ret)[1]).filePath = fileX
    /\ JsonValue(files[fileX], <<"includes">>).t = "Undefined"
    /\ readConfigMember(files[fileX]) = ObjectNode("a" :> ReferenceNode(Abs("a")))

\* C14, for a document without a 'config' member: read does not fail at the
\* 'config' member, neither when it reads it nor when it applies it to the
\* configuration of the includes.
C14_AbsentConfigIsAccepted ==
    (/\ ret.set /\ ret.filePath \in DOMAIN files /\ rootObject(ret).t = "Object"
     /\ JsonValue(rootObject(ret), <<"config">>).t = "Undefined") =>
        ret.at \notin {"config", "configApply"}

\* A JSON value holds an object with two keys of the same name once the
\* decorators are stripped: itself, or under undecorated keys and in arrays
RECURSIVE HasDuplicateNames(_)
HasDuplicateNames(json) ==
    CASE json.t = "Object" ->
            \/ \E k1, k2 \in DOMAIN json.v : k1 # k2 /\ Undecorated(k1) = Undecorated(k2)
            \/ \E k \in DOMAIN json.v : ~hasDecorator(k) /\ HasDuplicateNames(json.v[k])
      [] json.t = "Array" -> \E i \in 1..Len(json.v) : HasDuplicateNames(json.v[i])
      [] OTHER -> FALSE

\* C15: a read that has got as far as the 'config' member of a document in
\* which two keys of one object yield the same member name has failed there
\* with a null pointer; no tree with one of the two members is built.
C15_DuplicateNameFailsRead ==
    (/\ ret.set /\ ret.filePath \in DOMAIN files /\ rootObject(ret).t = "Object"
     /\ ret.at \notin {"sourceNode", "destinationNode", "includes", "include", "included",
                       "includeApply"}
     /\ HasDuplicateNames(JsonValue(rootObject(ret), <<"config">>))) =>
        (ret.node = NoNode /\ ret.at = "config" /\ ret.composed = NoNode)

\* C15 happens: the read of {"a": 1, "&a": "/b", "b": 2} has failed at the
\* 'config' member
C15_Witness ==
    /\ ret.set /\ ret.at = "config" /\ ret.node = NoNode
    /\ ret.filePath \in DOMAIN files
    /\ DOMAIN JsonValue(rootObject(ret), <<"config">>).v = {Key("a"), Amp("a"), Key("b")}

\* The invocation f has got past the resolver to transformConfig
Transformed(f) == f.at \in {"transform", "end"}

\* C16: of a read that got to the transformation with source s and
\* destination d: when both are "/" it returns the resolved root; when s
\* names no node of the resolved root it returns a null pointer; otherwise
\* the path d names in the returned tree a node equal to the one s names in
\* the resolved root, and every node on the way from the returned root to d
\* is an Object with exactly one member.
C16_TransformMovesSourceToDestination ==
    (ret.set /\ Transformed(ret)) =>
        LET s == ret.sourceNode
            d == ret.destinationNode
            sub == NodeAt(ret.completeConfig, s)
        IN IF s = Root /\ d = Root THEN ret.at = "end" /\ ret.node = ret.completeConfig
           ELSE IF sub = NoNode THEN ret.at = "transform" /\ ret.node = NoNode
           ELSE /\ ret.at = "end" /\ ret.node # NoNode
                /\ NodeAt(ret.node, d) = sub
                /\ \A n \in 0..(Len(PathNames(d)) - 1) :
                      LET onTheWay == GetAt(ret.node, SubSeq(PathNames(d), 1, n))
                      IN IsObject(onTheWay) /\ Cardinality(DOMAIN onTheWay.members) = 1

\* C16 happens: read has returned the whole resolved root, an Object of
\* more than one member, two levels down
C16_Witness ==
    /\ ret.set /\ ret.at = "end"
    /\ ret.sourceNode = Root /\ Len(PathNames(ret.destinationNode)) = 2
    /\ Cardinality(DOMAIN ret.completeConfig.members) > 1
    /\ NodeAt(ret.node, ret.destinationNode) = ret.completeConfig

\* The names of the members of the root in the order in which the last pass
\* of f has called resolveReferences on them
RootMembersVisited(f) ==
    LET calls == SelectSeq(f.visits, LAMBDA e : e.k = 1 /\ Len(e.loc) = 1)
    IN [i \in 1..Len(calls) |-> calls[i].loc[1]]

\* The document of f has no includes, and an Object as 'config' member
SingleFile(f) ==
    /\ f.filePath \in DOMAIN files /\ rootObject(f).t = "Object"
    /\ JsonValue(rootObject(f), <<"includes">>).t \in {"Undefined", "Null"}
    /\ JsonValue(rootObject(f), <<"config">>).t = "Object"

\* C17: a pass over the configuration of a document without includes calls
\* resolveReferences on the members of the root in the order in which the
\* reader has inserted them (all of them, or those up to a member that
\* returns Error).
C17_MembersVisitedInInsertionOrder ==
    \A f \in Shown :
        (Len(f.passes) > 0 /\ SingleFile(f)) =>
            LET inserted == insertedNames(JsonValue(rootObject(f), <<"config">>))
                visited == RootMembersVisited(f)
            IN /\ Len(visited) <= Len(inserted)
               /\ visited = SubSeq(inserted, 1, Len(visited))

\* The loop of read over the passes as a function of the configuration it
\* starts from and of the order in which the Objects iterate their members
RECURSIVE resolveLoop(_, _, _)
resolveLoop(config, ord, i) ==
    IF i >= maxCycles THEN [result |-> "Unresolved", config |-> config]
    ELSE LET pass == ResolvePass(config, ord)
         IN IF pass.r = "Unresolved" THEN resolveLoop(pass.t, ord, i + 1)
            ELSE [result |-> pass.r, config |-> pass.t]

\* What the invocation f returns when it is run again from the same composed
\* configuration with the members iterated in the order ord
SecondRun(f, ord) ==
    LET done == resolveLoop(f.composed, ord, 0)
    IN IF done.result # "Resolved" THEN NoNode
       ELSE transformConfig(done.config, f.sourceNode, f.destinationNode)

\* C18: a read of the same documents with the same max_cycles returns the
\* same (a null pointer, or the same tree) for whichever order the passes
\* visit the members of an Object.
C18_OutcomeIndependentOfOrder ==
    (ret.set /\ ret.composed # NoNode) =>
        \A o \in Orders : SecondRun(ret, o) = ret.node

\* C19: readConfig with a type that has no reader returns a null pointer,
\* leaves "Unsupported configuration type: <type>" in *error and calls no
\* reader; with a type that has a reader it calls the read of that reader
\* and returns what it returns; the type "CppConfigFramework" has a reader
\* from construction on; registerConfigReader with an empty type or a null
\* reader returns false and leaves the readers as they were.
C19_FactoryDispatch ==
    /\ CppConfigFramework \in DOMAIN factory.m_configReaders
    /\ factory.call = "none" => factory.m_configReaders[CppConfigFramework] = TheConfigReader
    /\ factory.call = "readConfig" =>
          /\ factory.m_configReaders = factory.before
          /\ IF factory.type \notin DOMAIN factory.before
             THEN /\ factory.returned = NoNode /\ factory.reader = NullReader
                  /\ factory.error \in
                         {NoErrorOut, <<"Unsupported configuration type: ">> \o factory.type}
             ELSE /\ factory.reader = factory.before[factory.type]
                  /\ factory.returned = factory.readerReturned
    /\ (/\ factory.call = "registerConfigReader"
        /\ (factory.type = <<>> \/ factory.reader = NullReader)) =>
          (factory.returned = FALSE /\ factory.m_configReaders = factory.before)
    /\ \A t \in DOMAIN factory.m_configReaders :
          t # <<>> /\ factory.m_configReaders[t] # NullReader

\* C19 happens: readConfig has been called with a type that was registered
\* after construction and has returned the tree its reader returned
C19_Witness ==
    /\ factory.call = "readConfig" /\ factory.type = <<"Other">>
    /\ factory.reader = "ReaderA" /\ factory.returned = ObjectNode("a" :> ValueNode(1))

\* The read f has started the resolution with an Object as the root, has
\* handed an Object to the last pass and holds an Object after it
RootIsObject(f) ==
    /\ IsObject(f.includesConfig)
    /\ IsObject(f.composed)
    /\ IsObject(f.completeConfig)
    /\ Len(f.passes) > 0 => IsObject(f.before)

\* C20: the root handed to every pass of the resolver is an Object: in every
\* read that has got to the resolver loop, top-level or nested, running or
\* returned, the configuration composed of the includes and the 'config'
\* member is an Object when the loop starts, the tree handed to a pass is an
\* Object and the tree a pass leaves is an Object.
C20_ResolverRootIsObject ==
    /\ \A k \in 1..Len(stack) : stack[k].pc = "resolve" => RootIsObject(stack[k])
    /\ (ret.set /\ ret.composed # NoNode) => RootIsObject(ret)

\* C20 happens: a document with "includes": null has been read to its end
\* through a pass of the resolver
C20_Witness ==
    /\ ret.set /\ ret.at = "end" /\ Len(ret.passes) > 0
    /\ JsonValue(rootObject(ret), <<"includes">>).t = "Null"
    /\ IsObject(ret.before) /\ IsObject(ret.completeConfig)

\* C21: two threads that read different documents through the factory at
\* the same time do not interfere: none of them writes a field of the
\* reader they share, the process does not end, and each thread that has
\* returned has got what the same read returns when run alone.
C21_ConcurrentReadsDoNotInterfere ==
    /\ ~threads.crashed
    /\ \A t \in Threads :
          /\ threads.t[t].wrote = {}
          /\ threads.t[t].pc = "done" =>
                threads.t[t].result =
                    ConfigReader_readAlone(threads.t[t].filePath, threads.t[t].sourceNode,
                                           threads.t[t].destinationNode)

\* The node the path names for the node the call e was made on, as the call
\* found the trees: the path is looked up from the parent of the node
NamedAtVisit(e, path) ==
    LET parent == ParentPos(e.ctx, e.loc)
    IN nodeAtPath(e.ctx, parent.k, parent.loc, path)

\* The node the call e was made on, as the call found it and as it left it
NodeAtVisit(e) == GetAt(Top(e.ctx).tree, e.loc)

NodeAfterVisit(e) == GetAt(e.after, e.loc)

\* The call e was made on a NodeReference whose path named no node
ReferenceToMissingNode(e) ==
    /\ e.type = "NodeReference"
    /\ NamedAtVisit(e, NodeAtVisit(e).nodeReference) = NoNode

\* C22: a call on a NodeReference whose path names no node when the call is
\* made returns Unresolved, never Error, and leaves the tree as it was, the
\* reference included; once the node exists a later pass resolves the
\* reference: no read that got past the resolver holds a reference.
C22_MissingTargetIsUnresolved ==
    \A f \in Shown :
        /\ \A j \in DOMAIN f.visits :
              ReferenceToMissingNode(f.visits[j]) =>
                  /\ f.visits[j].r = "Unresolved"
                  /\ f.visits[j].after = Top(f.visits[j].ctx).tree
                  /\ ~(\E i \in DOMAIN f.passes : f.passes[i] = "Resolved")
        /\ (Len(f.passes) > 0 /\ Last(f.passes) = "Resolved") =>
              RefLocs(f.completeConfig, <<>>) = {}

\* C22 happens: the first pass visited the reference b to /c/a before the
\* reference c, when c had no member a yet, and the second pass has resolved
\* b to the member a of what c became
C22_Witness ==
    /\ ret.set /\ ret.node # NoNode /\ ret.passes = <<"Unresolved", "Resolved">>
    /\ IsObject(ret.composed) /\ "b" \in DOMAIN ret.composed.members
    /\ ret.composed.members["b"] = ReferenceNode(Abs2("c", "a"))
    /\ NodeAt(ret.composed, Abs2("c", "a")) = NoNode
    /\ GetAt(ret.before, <<"b">>) = ReferenceNode(Abs2("c", "a"))
    /\ GetAt(ret.completeConfig, <<"b">>) = NodeAt(ret.completeConfig, Abs2("c", "a"))

\* The calls of resolveReferences on the children of the node of call j of
\* the last pass of f, in the order in which they were made: the calls made
\* under call j on the nodes one step below its node in the same tree
ChildCalls(f, j) ==
    LET e == f.visits[j]
        under == [i \in 1..(e.calls - 1) |-> j - e.calls + i]
    IN SelectSeq(under, LAMBDA i : /\ f.visits[i].k = e.k
                                   /\ Len(f.visits[i].loc) = Len(e.loc) + 1)

\* The result of call j on an Array or Object is the aggregate of the
\* results of the calls on its children, made in the order of the elements
\* or of the member names, up to the first Error
Aggregated(f, j) ==
    LET e == f.visits[j]
        kids == ChildCalls(f, j)
        steps == [i \in 1..Len(kids) |-> Last(f.visits[kids[i]].loc)]
        rs == [i \in 1..Len(kids) |-> f.visits[kids[i]].r]
        expected == IF e.type = "Array" THEN Indexes(NodeAtVisit(e))
                    ELSE memberNames(NodeAtVisit(e), order)
    IN IF \E i \in 1..Len(rs) : rs[i] = "Error"
       THEN /\ e.r = "Error"
            /\ rs[Len(rs)] = "Error" /\ \A i \in 1..(Len(rs) - 1) : rs[i] # "Error"
            /\ Len(steps) <= Len(expected) /\ steps = SubSeq(expected, 1, Len(steps))
       ELSE /\ steps = expected
            /\ e.r = IF \E i \in 1..Len(rs) : rs[i] = "Unresolved" THEN "Unresolved"
                     ELSE "Resolved"

\* C23: the result of a call on an Array or Object is Error if the call on a
\* child returned Error, and then no child after that one is visited;
\* otherwise every child is visited, also after a child that returned
\* Unresolved, and the result is Unresolved if the call on some child
\* returned Unresolved and Resolved if all returned Resolved.
C23_ResultsAreAggregated ==
    \A f \in Shown : \A j \in DOMAIN f.visits :
        f.visits[j].type \in {"Array", "Object"} => Aggregated(f, j)

\* C23 happens: in an Array of three elements the call on the first has
\* returned Unresolved, and the call on the third has then replaced the
\* reference in it and returned Resolved; the Array returns Unresolved
C23_Witness ==
    ret.set /\ \E j \in DOMAIN ret.visits :
        LET kids == ChildCalls(ret, j)
        IN /\ ret.visits[j].type = "Array" /\ ret.visits[j].r = "Unresolved"
           /\ Len(kids) = 3
           /\ ret.visits[kids[1]].r = "Unresolved"
           /\ ret.visits[kids[3]].r = "Resolved"
           /\ ret.visits[kids[3]].after # Top(ret.visits[kids[3]].ctx).tree

\* The node base i of the DerivedObject of call e named when the call was made
BaseAtVisit(e, i) == NamedAtVisit(e, NodeAtVisit(e).bases[i])

\* Base i named no node, or a node that was not fully resolved
BaseNotReady(e, i) == BaseAtVisit(e, i) = NoNode \/ ~isFullyResolved(BaseAtVisit(e, i))

\* The call e was made on a DerivedObject one of whose bases was not ready
SomeBaseNotReady(e) ==
    /\ e.type = "DerivedObject"
    /\ \E i \in DOMAIN NodeAtVisit(e).bases : BaseNotReady(e, i)

\* The call e was made on a DerivedObject one of whose bases was not ready,
\* the bases before it in the list being fully resolved Objects
FirstBasesMergeThenOneNotReady(e) ==
    /\ e.type = "DerivedObject"
    /\ \E i \in DOMAIN NodeAtVisit(e).bases :
          /\ BaseNotReady(e, i)
          /\ \A h \in 1..(i - 1) : ~BaseNotReady(e, h) /\ IsObject(BaseAtVisit(e, h))

\* The call e returned Unresolved, left the tree as it was and made no call
\* of resolveReferences (the config override was not resolved)
LeftForLaterPass(e) ==
    e.r = "Unresolved" /\ e.after = Top(e.ctx).tree /\ e.calls = 1

\* C24 as stated: a call on a DerivedObject any of whose bases names no node
\* or a node that is not fully resolved returns Unresolved, never Error, and
\* leaves the DerivedObject as it was, override included; a read whose last
\* pass made such a call fails after max_cycles passes.
C24_AsStated ==
    /\ \A f \in Shown : \A j \in DOMAIN f.visits :
          SomeBaseNotReady(f.visits[j]) => LeftForLaterPass(f.visits[j])
    /\ (ret.set /\ \E j \in DOMAIN ret.visits : SomeBaseNotReady(ret.visits[j])) =>
          (ret.node = NoNode /\ ret.at = "unresolved" /\ Len(ret.passes) = maxCycles)

\* C24, amended: a call on a DerivedObject returns Unresolved and leaves the
\* DerivedObject as it was, override included, when the first base in list
\* order that is not a fully resolved Object names no node or a node that is
\* not fully resolved; a read whose last pass made such a call returns no
\* tree, and unless a pass returned Error it fails after max_cycles passes.
C24_BaseNotReadyIsUnresolved ==
    /\ \A f \in Shown : \A j \in DOMAIN f.visits :
          FirstBasesMergeThenOneNotReady(f.visits[j]) => LeftForLaterPass(f.visits[j])
    /\ (ret.set /\ \E j \in DOMAIN ret.visits :
                       FirstBasesMergeThenOneNotReady(ret.visits[j])) =>
          /\ ret.node = NoNode
          /\ ret.at \in {"unresolved", "resolveError"}
          /\ ret.at = "unresolved" => Len(ret.passes) = maxCycles

\* C24 happens: read has failed after two passes over an object derived from
\* /a and /b, /a being a plain Object and /b missing in both passes
C24_Witness ==
    /\ ret.set /\ ret.at = "unresolved" /\ maxCycles = 2 /\ Len(ret.passes) = 2
    /\ \E j \in DOMAIN ret.visits :
          LET e == ret.visits[j]
          IN /\ e.type = "DerivedObject" /\ Len(NodeAtVisit(e).bases) = 2
             /\ IsObject(BaseAtVisit(e, 1)) /\ isFullyResolved(BaseAtVisit(e, 1))
             /\ BaseAtVisit(e, 2) = NoNode
             /\ LeftForLaterPass(e)
             /\ GetAt(ret.composed, e.loc) = NodeAtVisit(e)

\* The element the call i of the last pass of f was made on, as the call
\* left it
ElementLeft(f, i) == GetAt(f.visits[i].after, f.visits[i].loc)

\* Call j of the last pass of f, on a DerivedArray: the node is an Array
\* after it exactly when the call on every element returned Resolved; the
\* node has then, and when some element returned Unresolved and none Error,
\* its elements in the same number and order, each as its call left it
DerivedArrayConverted(f, j) ==
    LET e == f.visits[j]
        kids == ChildCalls(f, j)
        n == Len(NodeAtVisit(e).elements)
        left == NodeAfterVisit(e)
        allResolved == Len(kids) = n /\ \A i \in 1..n : f.visits[kids[i]].r = "Resolved"
    IN /\ left.type \in {"Array", "DerivedArray"}
       /\ left.type = "Array" <=> allResolved
       /\ e.r = "Resolved" <=> allResolved
       /\ (\A i \in 1..Len(kids) : f.visits[kids[i]].r # "Error") =>
             /\ Len(kids) = n /\ Len(left.elements) = n
             /\ \A i \in 1..n :
                   /\ f.visits[kids[i]].loc = Append(e.loc, i)
                   /\ left.elements[i] = ElementLeft(f, kids[i])
                   /\ f.visits[kids[i]].r = "Resolved" => isFullyResolved(left.elements[i])

\* C25: a DerivedArray becomes an Array exactly in a pass in which the call
\* on every one of its elements returns Resolved, with the same number of
\* elements in the same order, each equal to the resolved element; when some
\* element returns Unresolved the node stays a DerivedArray and holds the
\* elements as their calls left them, the resolved ones resolved.
C25_DerivedArrayConvertsWhenAllResolved ==
    \A f \in Shown : \A j \in DOMAIN f.visits :
        f.visits[j].type = "DerivedArray" => DerivedArrayConverted(f, j)

\* C25 happens: the second pass has made an Array of a derived array whose
\* first element the first pass had resolved and whose third element the
\* first pass had left unresolved
C25_Witness ==
    /\ ret.set /\ ret.passes = <<"Unresolved", "Resolved">>
    /\ IsObject(ret.composed) /\ "b" \in DOMAIN ret.composed.members
    /\ ret.composed.members["b"].type = "DerivedArray"
    /\ Len(ret.composed.members["b"].elements) = 3
    /\ ret.composed.members["b"].elements[1].type = "NodeReference"
    /\ ret.before.members["b"].type = "DerivedArray"
    /\ isFullyResolved(ret.before.members["b"].elements[1])
    /\ ~isFullyResolved(ret.before.members["b"].elements[3])
    /\ ret.completeConfig.members["b"].type = "Array"
    /\ ret.completeConfig.members["b"].elements[1] = ret.before.members["b"].elements[1]

\* Base i named a fully resolved node that was not an Object
BaseNotAnObject(e, i) ==
    /\ BaseAtVisit(e, i) # NoNode
    /\ isFullyResolved(BaseAtVisit(e, i))
    /\ ~IsObject(BaseAtVisit(e, i))

\* The call e was made on a DerivedObject one of whose bases was a fully
\* resolved node that was not an Object
SomeBaseNotAnObject(e) ==
    /\ e.type = "DerivedObject"
    /\ \E i \in DOMAIN NodeAtVisit(e).bases : BaseNotAnObject(e, i)

\* The same, the bases before it in the list being fully resolved Objects
FirstBasesMergeThenOneNotAnObject(e) ==
    /\ e.type = "DerivedObject"
    /\ \E i \in DOMAIN NodeAtVisit(e).bases :
          /\ BaseNotAnObject(e, i)
          /\ \A h \in 1..(i - 1) : ~BaseNotReady(e, h) /\ IsObject(BaseAtVisit(e, h))

\* The call e returned Error at once, and the read it belongs to has
\* returned a null pointer from that pass
FailedAtOnce(e) ==
    /\ e.r = "Error" /\ e.calls = 1 /\ e.after = Top(e.ctx).tree
    /\ ret.node = NoNode /\ ret.at = "resolveError" /\ Last(ret.passes) = "Error"

\* C26 as stated: a call on a DerivedObject any of whose bases names a fully
\* resolved node that is not an Object returns Error at once, and read fails
\* in that pass.
C26_AsStated ==
    /\ \A k \in DOMAIN stack : \A j \in DOMAIN stack[k].visits :
          ~SomeBaseNotAnObject(stack[k].visits[j])
    /\ ret.set => \A j \in DOMAIN ret.visits :
          SomeBaseNotAnObject(ret.visits[j]) => FailedAtOnce(ret.visits[j])

\* C26, amended: a call on a DerivedObject returns Error at once when the
\* first base in list order that is not a fully resolved Object names a
\* fully resolved node that is not an Object (a Value, Null or Array); the
\* pass returns Error and read fails in that pass, without running the
\* passes that remain up to max_cycles.
C26_NonObjectBaseIsError ==
    /\ \A k \in DOMAIN stack : \A j \in DOMAIN stack[k].visits :
          ~FirstBasesMergeThenOneNotAnObject(stack[k].visits[j])
    /\ ret.set => \A j \in DOMAIN ret.visits :
          FirstBasesMergeThenOneNotAnObject(ret.visits[j]) => FailedAtOnce(ret.visits[j])

\* C26 happens: with two passes allowed, read has failed in the first pass
\* at an object derived from /a and /b, /a being a plain Object and /b an
\* Array
C26_Witness ==
    /\ ret.set /\ ret.at = "resolveError" /\ maxCycles = 2 /\ ret.passes = <<"Error">>
    /\ \E j \in DOMAIN ret.visits :
          LET e == ret.visits[j]
          IN /\ e.type = "DerivedObject" /\ Len(NodeAtVisit(e).bases) = 2
             /\ IsObject(BaseAtVisit(e, 1)) /\ isFullyResolved(BaseAtVisit(e, 1))
             /\ BaseAtVisit(e, 2).type = "Array"
             /\ FailedAtOnce(e)

ReferenceTypes == {"NodeReference", "DerivedArray", "DerivedObject"}

\* The call e was made on a node that is the root of a tree
OnRoot(e) == Len(e.loc) = 0

\* C27: every NodeReference, DerivedArray and DerivedObject the resolver is
\* called on has a parent, so that none of the three 'has no parent' errors
\* is produced: the root of the configuration is an Object, an element of a
\* DerivedArray is resolved with the DerivedArray as its parent, and the
\* clone of the config override of a DerivedObject is an Object that is
\* resolved with the parent of the DerivedObject as its parent.
C27_ReferenceNodesHaveAParent ==
    \A f \in Shown : \A j \in DOMAIN f.visits :
        LET e == f.visits[j]
        IN /\ e.type \in ReferenceTypes => HasParent(e.ctx, e.loc)
           /\ (OnRoot(e) /\ e.k = 1) => e.type = "Object"
           /\ (OnRoot(e) /\ e.k > 1) =>
                 /\ e.type = "Object"
                 /\ j + 1 \in DOMAIN f.visits
                 /\ f.visits[j + 1].type = "DerivedObject"
                 /\ ParentPos(e.ctx, e.loc)
                        = ParentPos(f.visits[j + 1].ctx, f.visits[j + 1].loc)
           /\ e.type = "DerivedArray" =>
                 \A i \in 1..Len(ChildCalls(f, j)) :
                     ParentPos(f.visits[ChildCalls(f, j)[i]].ctx,
                               f.visits[ChildCalls(f, j)[i]].loc)
                         = [k |-> e.k, loc |-> e.loc]

\* C27 happens: a pass has resolved a NodeReference that is an element of a
\* DerivedArray, and a NodeReference in the clone of a config override
C27_Witness ==
    /\ ret.set
    /\ \E j \in DOMAIN ret.visits :
          /\ ret.visits[j].type = "NodeReference" /\ ret.visits[j].r = "Resolved"
          /\ GetAt(Top(ret.visits[j].ctx).tree, Front(ret.visits[j].loc)).type
                 = "DerivedArray"
    /\ \E j \in DOMAIN ret.visits :
          /\ ret.visits[j].type = "NodeReference" /\ ret.visits[j].r = "Resolved"
          /\ ret.visits[j].k = 2

\* The number of NodeReference, DerivedArray and DerivedObject nodes of a
\* tree, the config overrides of its derived objects included
RECURSIVE SumOver(_, _)
SumOver(counts, i) == IF i = 0 THEN 0 ELSE counts[i] + SumOver(counts, i - 1)

RECURSIVE CountUnresolved(_)
CountUnresolved(n) ==
    (IF n.type \in ReferenceTypes THEN 1 ELSE 0)
    + CASE n.type \in {"Array", "DerivedArray"} ->
              SumOver([i \in 1..Len(n.elements) |-> CountUnresolved(n.elements[i])],
                      Len(n.elements))
        [] n.type = "Object" ->
              LET names == memberNames(n, <<"a", "b", "c">>)
              IN SumOver([i \in 1..Len(names) |-> CountUnresolved(n.members[names[i]])],
                         Len(names))
        [] n.type = "DerivedObject" -> CountUnresolved(n.config)
        [] OTHER -> 0

\* C28 as stated: the tree holds after a pass at most as many NodeReference,
\* DerivedArray and DerivedObject nodes as before the pass.
C28_AsStated ==
    \A f \in Shown :
        Len(f.passes) > 0 => CountUnresolved(f.completeConfig) <= CountUnresolved(f.before)

\* The node the NodeReference of call e named when the call was made
TargetAtVisit(e) == NamedAtVisit(e, NodeAtVisit(e).nodeReference)

\* Every NodeReference the last pass of f was called on named no node, or a
\* fully resolved node
CopiesAreResolved(f) ==
    \A j \in DOMAIN f.visits :
        f.visits[j].type = "NodeReference" =>
            TargetAtVisit(f.visits[j]) = NoNode \/ isFullyResolved(TargetAtVisit(f.visits[j]))

\* C28, amended: a call on a NodeReference that names a node replaces the
\* one reference by as many unresolved nodes as the node it copies holds,
\* and one that names no node changes nothing; a pass in which every
\* NodeReference visited names no node or a fully resolved node leaves at
\* most as many unresolved nodes as it found.
C28_CountGrowsOnlyByCopies ==
    \A f \in Shown :
        /\ \A j \in DOMAIN f.visits :
              f.visits[j].type = "NodeReference" =>
                  CountUnresolved(f.visits[j].after) =
                      CountUnresolved(Top(f.visits[j].ctx).tree)
                      + (IF TargetAtVisit(f.visits[j]) = NoNode THEN 0
                         ELSE CountUnresolved(TargetAtVisit(f.visits[j])) - 1)
        /\ (Len(f.passes) > 0 /\ CopiesAreResolved(f)) =>
              CountUnresolved(f.completeConfig) <= CountUnresolved(f.before)

\* C28 happens: a pass that copied only fully resolved nodes has left fewer
\* unresolved nodes than it found, and not none
C28_Witness ==
    /\ ret.set /\ Len(ret.passes) > 0 /\ CopiesAreResolved(ret)
    /\ \E j \in DOMAIN ret.visits :
          ret.visits[j].type = "NodeReference" /\ ret.visits[j].r = "Resolved"
    /\ CountUnresolved(ret.completeConfig) < CountUnresolved(ret.before)
    /\ CountUnresolved(ret.completeConfig) > 0

\* The names lead from the root of the tree, through Objects, along the
\* location: they name the node at the location or a node it is in
RECURSIVE Along(_, _, _)
Along(tree, loc, names) ==
    IF Len(names) = 0 THEN TRUE
    ELSE /\ Len(loc) > 0 /\ tree.type = "Object"
         /\ Head(loc) = Head(names)
         /\ Along(tree.members[Head(loc)], Tail(loc), Tail(names))

\* The absolute path names a node the node of call e is in: in the tree of
\* the configuration, or, for a node of a config override, the parent of the
\* DerivedObject of that override or a node that parent is in
NamesAncestor(e, path) ==
    /\ isAbsoluteNodePath(path)
    /\ NamedAtVisit(e, path) # NoNode
    /\ IF e.k = 1
       THEN /\ Len(PathNames(path)) < Len(e.loc)
            /\ Along(e.ctx[1].tree, e.loc, PathNames(path))
       ELSE Along(e.ctx[1].tree, e.ctx[2].at, PathNames(path))

\* The absolute path names the node of call e
NamesItself(e, path) ==
    /\ isAbsoluteNodePath(path)
    /\ NamedAtVisit(e, path) # NoNode
    /\ e.k = 1 /\ Len(PathNames(path)) = Len(e.loc)
    /\ Along(e.ctx[1].tree, e.loc, PathNames(path))

\* The call e was made on a NodeReference to a node the reference is in
TargetIsAncestor(e) ==
    e.type = "NodeReference" /\ NamesAncestor(e, NodeAtVisit(e).nodeReference)

\* Base i of the DerivedObject of call e is the DerivedObject or a node it is in
BaseIsSelfOrAncestor(e, i) ==
    \/ NamesItself(e, NodeAtVisit(e).bases[i])
    \/ NamesAncestor(e, NodeAtVisit(e).bases[i])

SomeBaseIsSelfOrAncestor(e) ==
    /\ e.type = "DerivedObject"
    /\ \E i \in DOMAIN NodeAtVisit(e).bases : BaseIsSelfOrAncestor(e, i)

\* The bases before the one that is the DerivedObject or a node it is in are
\* fully resolved Objects
FirstBasesMergeThenSelfOrAncestor(e) ==
    /\ e.type = "DerivedObject"
    /\ \E i \in DOMAIN NodeAtVisit(e).bases :
          /\ BaseIsSelfOrAncestor(e, i)
          /\ \A h \in 1..(i - 1) : ~BaseNotReady(e, h) /\ IsObject(BaseAtVisit(e, h))

\* C29 as stated: a call on a NodeReference to a node the reference is in,
\* or on a DerivedObject one of whose bases is the DerivedObject or a node it
\* is in, returns Unresolved in every pass, and a read whose last pass made
\* such a call fails as not converged after exactly max_cycles passes.
C29_AsStated ==
    /\ \A f \in Shown : \A j \in DOMAIN f.visits :
          (TargetIsAncestor(f.visits[j]) \/ SomeBaseIsSelfOrAncestor(f.visits[j])) =>
              f.visits[j].r = "Unresolved"
    /\ (ret.set /\ \E j \in DOMAIN ret.visits :
                       \/ TargetIsAncestor(ret.visits[j])
                       \/ SomeBaseIsSelfOrAncestor(ret.visits[j])) =>
          (ret.node = NoNode /\ ret.at = "unresolved" /\ Len(ret.passes) = maxCycles)

\* C29, amended: a call on a NodeReference to a node the reference is in
\* returns Unresolved in every pass, and so does a call on a DerivedObject
\* whose first base in list order that is not a fully resolved Object is the
\* DerivedObject or a node it is in; a read whose last pass made such a call
\* returns no tree, and unless that pass returned Error it fails as not
\* converged after exactly max_cycles passes.
C29_CyclesNeverResolve ==
    /\ \A f \in Shown : \A j \in DOMAIN f.visits :
          /\ TargetIsAncestor(f.visits[j]) => f.visits[j].r = "Unresolved"
          /\ FirstBasesMergeThenSelfOrAncestor(f.visits[j]) =>
                LeftForLaterPass(f.visits[j])
    /\ (ret.set /\ \E j \in DOMAIN ret.visits :
                       \/ TargetIsAncestor(ret.visits[j])
                       \/ FirstBasesMergeThenSelfOrAncestor(ret.visits[j])) =>
          /\ ret.node = NoNode
          /\ Last(ret.passes) # "Resolved"
          /\ Last(ret.passes) = "Unresolved" =>
                (ret.at = "unresolved" /\ Len(ret.passes) = maxCycles)

\* C29 happens: read has failed as not converged after two passes of two,
\* the last of which called a NodeReference to a node the reference is in
\* and a DerivedObject that has itself, or a node it is in, as the first
\* base that is not a fully resolved Object
C29_Witness ==
    /\ ret.set /\ ret.node = NoNode /\ ret.at = "unresolved"
    /\ maxCycles = 2 /\ ret.passes = <<"Unresolved", "Unresolved">>
    /\ \E j \in DOMAIN ret.visits : TargetIsAncestor(ret.visits[j])
    /\ \E j \in DOMAIN ret.visits : FirstBasesMergeThenSelfOrAncestor(ret.visits[j])

\* C30 as stated: every tree a read returns has an Object as root.
C30_AsStated ==
    (ret.set /\ ret.node # NoNode) => IsObject(ret.node)

\* The source path of the read f selects, in the resolved root, a node that
\* is not an Object, and the destination is the root
SelectsNonObjectAsRoot(f) ==
    /\ f.destinationNode = Root /\ f.sourceNode # Root
    /\ NodeAt(f.completeConfig, f.sourceNode) # NoNode
    /\ ~IsObject(NodeAt(f.completeConfig, f.sourceNode))

\* C30, amended: a tree a read returns has an Object as root, except when
\* the destination is "/" and the source path selects a node that is not an
\* Object: the root returned is then that Value, Null or Array node.
C30_RootIsObjectUnlessSelected ==
    (ret.set /\ ret.node # NoNode) =>
        IF SelectsNonObjectAsRoot(ret)
        THEN /\ ret.node = NodeAt(ret.completeConfig, ret.sourceNode)
             /\ ret.node.type \in {"Value", "Null", "Array"}
        ELSE IsObject(ret.node)

\* C30 happens: a read with destination "/" has returned the Value its
\* source path selects in an Object root
C30_Witness ==
    /\ ret.set /\ ret.node # NoNode /\ ret.at = "end"
    /\ IsObject(ret.completeConfig)
    /\ SelectsNonObjectAsRoot(ret) /\ ret.node.type = "Value"

=============================================================================
